---- MODULE Spec2Model ----
(***************************************************************************)
(* A model of payload_extract_bot-rs: tool acquisition (src/src/tool.rs),  *)
(* the partition dump orchestrator (src/src/payload.rs), the boot-patch    *)
(* pipeline (src/src/patch_boot.rs) and the command handlers that call     *)
(* them as concurrent tasks (src/src/commands.rs).                         *)
(***************************************************************************)
EXTENDS Integers, Sequences, FiniteSets, TLC

(***************************************************************************)
(* Bounds of the model.                                                    *)
(***************************************************************************)
\* the wall clock (seconds since the epoch) takes the values 0..MaxTime
MaxTime == 1
\* number of runs of ToolManager::init followed
MaxCalls == 2
\* number of strings in a kernel file whose scan is followed on its own
MaxCands == 2

(***************************************************************************)
(* Strings.  A partition name is an atomic token; Bytes gives its UTF-8    *)
(* bytes, which is what String's Ord compares.  A command argument is a    *)
(* sequence of tokens in which "," is the separator character.             *)
(***************************************************************************)
Bytes(name) ==
    CASE name = ""            -> << >>
      [] name = "b"           -> <<98>>
      [] name = "boot"        -> <<98, 111, 111, 116>>
      [] name = "dtbo"        -> <<100, 116, 98, 111>>
      [] name = "ib"          -> <<105, 98>>
      [] name = "init_boot"   -> <<105, 110, 105, 116, 95, 98, 111, 111, 116>>
      [] name = "modem"       -> <<109, 111, 100, 101, 109>>
      [] name = "system"      -> <<115, 121, 115, 116, 101, 109>>
      [] name = "vb"          -> <<118, 98>>
      [] name = "vbmeta"      -> <<118, 98, 109, 101, 116, 97>>
      [] name = "vendor_boot" -> <<118, 101, 110, 100, 111, 114, 95, 98, 111, 111, 116>>

RECURSIVE LexLess(_, _)
\* <[u8] as Ord>::lt : lexicographic comparison of two byte strings
LexLess(a, b) ==
    IF b = << >> THEN FALSE
    ELSE IF a = << >> THEN TRUE
    ELSE IF Head(a) < Head(b) THEN TRUE
    ELSE IF Head(a) > Head(b) THEN FALSE
    ELSE LexLess(Tail(a), Tail(b))

StrLess(x, y) == LexLess(Bytes(x), Bytes(y))

\* faulty variant of Insert: x is put in front, whatever s holds
InsertFirst(x, s) == <<x>> \o s

RECURSIVE Insert(_, _)
\* insert x into the sorted sequence s, after the elements not greater than it
Insert(x, s) ==
    IF s = << >> THEN <<x>>
    ELSE IF StrLess(x, Head(s)) THEN <<x>> \o s
    ELSE <<Head(s)>> \o Insert(x, Tail(s))

\* faulty variant of Sort: the names stay in the order given
SortNone(s) == s

RECURSIVE Sort(_)
\* Vec<String>::sort : ascending by String's Ord (stable)
Sort(s) ==
    IF s = << >> THEN << >>
    ELSE Insert(s[Len(s)], Sort(SubSeq(s, 1, Len(s) - 1)))

RECURSIVE Dedup(_)
\* Vec::dedup : removes consecutive repeated elements
Dedup(s) ==
    IF Len(s) <= 1 THEN s
    ELSE IF s[1] = s[2] THEN Dedup(Tail(s))
    ELSE <<s[1]>> \o Dedup(Tail(s))

\* a segment between two separators read as one name
SegName(seg) == IF seg = << >> THEN "" ELSE seg[1]

RECURSIVE SplitFrom(_, _)
\* str::split(',') : cur is the segment being read
SplitFrom(s, cur) ==
    IF s = << >> THEN <<SegName(cur)>>
    ELSE IF Head(s) = "," THEN <<SegName(cur)>> \o SplitFrom(Tail(s), << >>)
    ELSE SplitFrom(Tail(s), cur \o <<Head(s)>>)

Split(s) == SplitFrom(s, << >>)

RECURSIVE Join(_)
\* [String]::join(",")
Join(names) ==
    IF names = << >> THEN << >>
    ELSE IF Len(names) = 1 THEN (IF names[1] = "" THEN << >> ELSE <<names[1]>>)
    ELSE (IF names[1] = "" THEN << >> ELSE <<names[1]>>) \o <<",">> \o Join(Tail(names))

Range(s) == {s[i] : i \in 1..Len(s)}

(***************************************************************************)
(* The remote archive, as the payload library reports it.                  *)
(***************************************************************************)
Urls == {"good", "bad"}

\* the JSON array rom_info["partitions"] of the archive behind the good URL.
\* A JSON value that is no unsigned 64-bit number is written -1, one that is no
\* string is written "null"
RemoteListing ==
    << [name |-> "boot",        size_bytes |-> 1000, hash |-> "h1"],
       [name |-> "dtbo",        size_bytes |-> 300,  hash |-> "null"],
       [name |-> "init_boot",   size_bytes |-> 800,  hash |-> "h3"],
       [name |-> "modem",       size_bytes |-> -1,   hash |-> "h6"],
       [name |-> "vbmeta",      size_bytes |-> 200,  hash |-> "h4"],
       [name |-> "vendor_boot", size_bytes |-> 900,  hash |-> "h5"] >>

\* what the listing thread hands over: the listing, an error, or nothing at
\* all when the thread ends without sending (the receiver sees RecvError)
ListOutcomes(url) == IF url = "good" THEN {"ok", "err", "gone"} ELSE {"err", "gone"}

\* what an extraction thread hands over
UnitOutcomes == {"ok", "err", "gone"}

\* faulty variant of Find: a name the listing lacks gets the first entry
FindOrFirst(listing, p_name) ==
    IF \E i \in 1..Len(listing) : listing[i].name = p_name
    THEN CHOOSE i \in 1..Len(listing) : listing[i].name = p_name
    ELSE 1

\* all_partitions_info.iter().find(|p| p["name"] == p_name): index of the first
\* match, 0 for None
Find(listing, p_name) ==
    IF \E i \in 1..Len(listing) : listing[i].name = p_name
    THEN CHOOSE i \in 1..Len(listing) :
            /\ listing[i].name = p_name
            /\ \A j \in 1..(i - 1) : listing[j].name # p_name
    ELSE 0

\* temp_dir.join(format!("{p_name}.img"))
ImgPath(dir, p_name) == <<dir, <<p_name, ".img">> >>

\* part_info["size_bytes"].as_u64().unwrap_or(0)
SizeOf(size_bytes) == IF size_bytes >= 0 THEN size_bytes ELSE 0

\* part_info["hash"].as_str().map(|s| s.to_string()): << >> for None, <<s>>
\* for Some(s)
HashOf(hash) == IF hash = "null" THEN << >> ELSE <<hash>>

\* the PartitionInfo built for a listed name
MakeInfo(listing, dir, p_name) ==
    [name |-> p_name,
     size |-> SizeOf(listing[Find(listing, p_name)].size_bytes),
     hash |-> HashOf(listing[Find(listing, p_name)].hash),
     path |-> ImgPath(dir, p_name)]

RECURSIVE BuildFiles(_, _, _)
\* the for loop over the requested names: one PartitionInfo, and one
\* extraction unit, per name the listing has
BuildFiles(listing, dir, names) ==
    IF names = << >> THEN << >>
    ELSE IF Find(listing, Head(names)) # 0
         THEN <<MakeInfo(listing, dir, Head(names))>> \o BuildFiles(listing, dir, Tail(names))
         ELSE BuildFiles(listing, dir, Tail(names))

\* the first three statements of dump_partition
RequestedNames(arg) == Dedup(Sort(Split(arg)))

(***************************************************************************)
(* Boot patching: the closed enums of patch_boot.rs.                       *)
(***************************************************************************)
\* PatchMethod::from
PatchMethodFrom(s) ==
    IF s \in {"kernelsu", "ksu", "k"} THEN "KernelSU"
    ELSE IF s \in {"magisk", "m"} THEN "Magisk"
    ELSE "Err"

\* PatchMethod::to_string
PatchMethodToString(m) == IF m = "KernelSU" THEN "kernelsu" ELSE "magisk"

\* PatchPartition::from
PatchPartitionFrom(s) ==
    IF s \in {"boot", "b"} THEN "Boot"
    ELSE IF s \in {"init_boot", "ib"} THEN "InitBoot"
    ELSE IF s \in {"vendor_boot", "vb"} THEN "VendorBoot"
    ELSE "Err"

\* PatchPartition::get_partition_name
get_partition_name(p) ==
    IF p = "Boot" THEN "boot"
    ELSE IF p = "InitBoot" THEN "init_boot"
    ELSE "vendor_boot"

\* the images vector patch_boot builds and joins into the dump's argument
Images(patch_partition) == <<patch_partition, "boot">>

\* the patcher's -b argument
PatcherImage(p) == <<get_partition_name(p), ".img">>

\* faulty variant of PatchedName: the name without the KMI and the extension
PatchedNameNoKmi(m, p, kmi) == <<PatchMethodToString(m), "_patched_", get_partition_name(p)>>

\* patched_name once the KMI is known
PatchedName(m, p, kmi) ==
    <<PatchMethodToString(m), "_patched_", get_partition_name(p), "-">> \o kmi \o <<".img">>

(***************************************************************************)
(* Kernel metadata.  The kernel file is a sequence of bytes; a byte is     *)
(* written as the character it encodes, "NUL" is the byte 0, "xFF" a byte  *)
(* that occurs in no UTF-8 text and "U+E9" the two bytes of a non-ASCII    *)
(* character.                                                              *)
(***************************************************************************)
Digits == {"0", "1", "2", "3", "4", "5", "6", "7", "8", "9"}

Lower == {"a", "b", "c", "d", "e", "f", "g", "h", "i", "j", "k", "l", "m",
          "n", "o", "p", "q", "r", "s", "t", "u", "v", "w", "x", "y", "z"}

Upper == {"A", "B", "C", "D", "E", "F", "G", "H", "I", "J", "K", "L", "M",
          "N", "O", "P", "Q", "R", "S", "T", "U", "V", "W", "X", "Y", "Z"}

Punct == {"!", "\"", "#", "$", "%", "&", "'", "(", ")", "*", "+", ",", "-", ".", "/", ":",
          ";", "<", "=", ">", "?", "@", "[", "\\", "]", "^", "_", "{", "|", "}", "~"}

\* char::is_ascii_graphic (the grave accent, which a string here cannot hold,
\* is left out)
AsciiGraphic == Digits \cup Lower \cup Upper \cup Punct

\* char::is_whitespace, and the complement of \S: the characters of the
\* Unicode property White_Space.  Tab, line feed, form feed, carriage return
\* and space are written as themselves; "U+0B" (vertical tab), "U+85" (next
\* line) and "U+A0" (no-break space) stand for three more, the last two
\* non-ASCII; those from U+1680 on are not written
Whitespace == {" ", "\t", "\n", "\f", "\r", "U+0B", "U+85", "U+A0"}

NUL == "NUL"

Min(S) == CHOOSE x \in S : \A y \in S : x <= y
Max(S) == CHOOSE x \in S : \A y \in S : y <= x

\* buffer.split(|&b| b == 0) : the slices between one NUL (or the start) and
\* the next (or the end), empty ones included
SplitNul(buffer) ==
    LET nuls   == {i \in 1..Len(buffer) : buffer[i] = NUL}
        pos(k) == IF k = 0 THEN 0
                  ELSE IF k > Cardinality(nuls) THEN Len(buffer) + 1
                  ELSE CHOOSE i \in nuls : Cardinality({j \in nuls : j <= i}) = k
    IN  [k \in 1..(Cardinality(nuls) + 1) |-> SubSeq(buffer, pos(k - 1) + 1, pos(k) - 1)]

\* std::str::from_utf8(slice).ok()
IsUtf8(s) == \A i \in 1..Len(s) : s[i] # "xFF"

\* s.chars().all(|c| c.is_ascii_graphic() || c == ' ')
IsPrintable(s) == \A i \in 1..Len(s) : s[i] \in AsciiGraphic \cup {" "}

\* \d+ from q on: the index after the longest run of digits that starts at q
DigitsEnd(s, q) ==
    CHOOSE e \in q..(Len(s) + 1) :
        /\ \A i \in q..(e - 1) : s[i] \in Digits
        /\ e <= Len(s) => s[e] \notin Digits

\* faulty variant of VersionEnd: (\d+(?:\.\d+)+), every dotted component is taken
VersionEndDotted(s, q) ==
    IF q > Len(s) \/ DigitsEnd(s, q) = q THEN 0
    ELSE LET ends == {e \in (q + 1)..(Len(s) + 1) :
                         /\ \A i \in q..(e - 1) : s[i] \in Digits \cup {"."}
                         /\ s[e - 1] \in Digits
                         /\ \A i \in q..(e - 2) : s[i] = "." => s[i + 1] \in Digits
                         /\ \E i \in q..(e - 1) : s[i] = "."}
         IN  IF ends = {} THEN 0 ELSE Max(ends)

\* (\d+\.\d+) at q: the index after the match, 0 for no match.  Both runs are
\* the longest ones: a shorter first run is not followed by the dot, and a
\* shorter second run leaves digits that (?:\S+)? takes up
VersionEnd(s, q) ==
    IF q > Len(s) THEN 0
    ELSE LET e1 == DigitsEnd(s, q)
         IN  IF e1 = q \/ e1 >= Len(s) \/ s[e1] # "." THEN 0
             ELSE IF DigitsEnd(s, e1 + 1) = e1 + 1 THEN 0
             ELSE DigitsEnd(s, e1 + 1)

Android == <<"a", "n", "d", "r", "o", "i", "d">>

\* (android\d+) at r
AndroidAt(s, r) ==
    /\ r + 7 <= Len(s)
    /\ SubSeq(s, r, r + 6) = Android
    /\ s[r + 7] \in Digits

\* (?:\S+)?(android\d+) from e on: where the android tag may start
AndroidStarts(s, e) ==
    {r \in e..Len(s) : AndroidAt(s, r) /\ \A i \in e..(r - 1) : s[i] \notin Whitespace}

\* (\d+\.\d+)(?:\S+)?(android\d+) matches at q
RestMatches(s, q) == VersionEnd(s, q) # 0 /\ AndroidStarts(s, VersionEnd(s, q)) # {}

\* where group 1 starts in the leftmost-first match of kmi_re on a printable
\* s, 0 for no match: the greedy (?:.* )? ends at the last space that the rest
\* of the pattern can follow; without such a space the match is the leftmost
\* one of the rest of the pattern
VersionStart(s) ==
    LET any   == {q \in 1..Len(s) : RestMatches(s, q)}
        after == {q \in any : q > 1 /\ s[q - 1] = " "}
    IN  IF after # {} THEN Max(after) ELSE IF any # {} THEN Min(any) ELSE 0

\* the kmi string built from the captures of kmi_re, << >> for no match: group 2
\* is the last android tag the greedy (?:\S+)? can lead to
KmiOf(s) ==
    IF ~IsPrintable(s) \/ VersionStart(s) = 0 THEN << >>
    ELSE LET q == VersionStart(s)
             e == VersionEnd(s, q)
             r == Max(AndroidStarts(s, e))
         IN  SubSeq(s, r, DigitsEnd(s, r + 7) - 1) \o <<"-">> \o SubSeq(s, q, e - 1)

LinuxVersion == <<"L", "i", "n", "u", "x", " ", "v", "e", "r", "s", "i", "o", "n", " ">>

\* str::trim
Trim(s) ==
    LET kept == {i \in 1..Len(s) : s[i] \notin Whitespace}
    IN  IF kept = {} THEN << >> ELSE SubSeq(s, Min(kept), Max(kept))

\* the trimmed capture of kernel_version_re, << >> for no match or an empty one:
\* the leftmost "Linux version ", then (.*) up to the end of the line
KernelVersionOf(s) ==
    LET at == {i \in 1..Len(s) : i + 13 <= Len(s) /\ SubSeq(s, i, i + 13) = LinuxVersion}
    IN  IF at = {} THEN << >>
        ELSE LET from == Min(at) + 14
                 eol  == Min({i \in from..Len(s) : s[i] = "\n"} \cup {Len(s) + 1})
             IN  Trim(SubSeq(s, from, eol - 1))

\* what the loop of get_kmi finds in one NUL-separated slice (<< >> for no match)
Cand(utf8, printable, kmi, kv) == [utf8 |-> utf8, printable |-> printable, kmi |-> kmi, kv |-> kv]

\* the slices of the kernel file and what each holds
Candidates(buffer) ==
    LET slices == SplitNul(buffer)
    IN  [i \in 1..Len(slices) |->
            Cand(IsUtf8(slices[i]), IsPrintable(slices[i]), KmiOf(slices[i]),
                 IF IsUtf8(slices[i]) THEN KernelVersionOf(slices[i]) ELSE << >>)]

\* filter_map(|slice| std::str::from_utf8(slice).ok())
Utf8Only(cands) == SelectSeq(cands, LAMBDA c : c.utf8)

RECURSIVE ScanFromFirstCandidate(_, _, _)
\* faulty variant of ScanFrom: the loop ends at the first slice that yields
\* either value
ScanFromFirstCandidate(cands, kmi, kernel_version) ==
    IF cands = << >> THEN <<kmi, kernel_version, 0>>
    ELSE LET s  == Head(cands)
             k1 == IF kmi = << >> /\ s.printable /\ s.kmi # << >> THEN s.kmi ELSE kmi
             v1 == IF kernel_version = << >> /\ s.kv # << >> THEN s.kv ELSE kernel_version
         IN  IF k1 # << >> \/ v1 # << >> THEN <<k1, v1, 1>>
             ELSE LET r == ScanFromFirstCandidate(Tail(cands), k1, v1)
                  IN  <<r[1], r[2], r[3] + 1>>

RECURSIVE ScanFromLastWins(_, _, _)
\* faulty variant of ScanFrom: no is_none test and no break, so a later slice
\* replaces what an earlier one gave
ScanFromLastWins(cands, kmi, kernel_version) ==
    IF cands = << >> THEN <<kmi, kernel_version, 0>>
    ELSE LET s  == Head(cands)
             k1 == IF s.printable /\ s.kmi # << >> THEN s.kmi ELSE kmi
             v1 == IF s.kv # << >> THEN s.kv ELSE kernel_version
             r  == ScanFromLastWins(Tail(cands), k1, v1)
         IN  <<r[1], r[2], r[3] + 1>>

RECURSIVE ScanFrom(_, _, _)
\* the for loop of get_kmi: kmi and kernel_version are << >> while None; the
\* third component counts the slices the loop body ran on
ScanFrom(cands, kmi, kernel_version) ==
    IF cands = << >> THEN <<kmi, kernel_version, 0>>
    ELSE LET s  == Head(cands)
             k1 == IF kmi = << >> /\ s.printable /\ s.kmi # << >> THEN s.kmi ELSE kmi
             v1 == IF kernel_version = << >> /\ s.kv # << >> THEN s.kv ELSE kernel_version
         IN  IF k1 # << >> /\ v1 # << >> THEN <<k1, v1, 1>>
             ELSE LET r == ScanFrom(Tail(cands), k1, v1)
                  IN  <<r[1], r[2], r[3] + 1>>

\* get_kmi from the bytes of the kernel file on: the scan and the final match
get_kmi(buffer) ==
    LET r == ScanFrom(Utf8Only(Candidates(buffer)), << >>, << >>)
    IN  IF r[1] # << >> /\ r[2] # << >>
        THEN [ok |-> TRUE, err |-> "", kmi |-> r[1], kernel_version |-> r[2], examined |-> r[3]]
        ELSE IF r[1] # << >>
        THEN [ok |-> FALSE, err |-> "no_kernel_version", kmi |-> << >>, kernel_version |-> << >>,
              examined |-> r[3]]
        ELSE IF r[2] # << >>
        THEN [ok |-> FALSE, err |-> "no_kmi", kmi |-> << >>, kernel_version |-> << >>,
              examined |-> r[3]]
        ELSE [ok |-> FALSE, err |-> "no_kmi_no_kernel_version", kmi |-> << >>, kernel_version |-> << >>,
              examined |-> r[3]]

\* 5.10.101-android13-8-00674-g1
KmiString ==
    <<"5", ".", "1", "0", ".", "1", "0", "1", "-">> \o Android \o
    <<"1", "3", "-", "8", "-", "0", "0", "6", "7", "4", "-", "g", "1">>

\* Linux version 5.10.101-something
BannerString ==
    LinuxVersion \o <<"5", ".", "1", "0", ".", "1", "0", "1", "-",
                      "s", "o", "m", "e", "t", "h", "i", "n", "g">>

\* the strings found in the kernel files scanned
KernelStrings ==
    { KmiString,
      BannerString,
      \* a banner with nothing but blanks after it
      LinuxVersion \o <<" ", "\f", "\n">>,
      \* a banner with a form feed before the version and a no-break space after it
      LinuxVersion \o <<"\f", "6", ".", "6", "U+A0">>,
      \* a kmi string after a non-ASCII character
      <<"U+E9", "6", ".", "1", "-">> \o Android \o <<"1", "4">>,
      \* a banner in a slice that is no UTF-8 text
      <<"xFF">> \o LinuxVersion \o <<"6", ".", "1">>,
      \* a banner as the kernel prints it, ended by a line feed
      LinuxVersion \o <<"5", ".", "4", ".", "0", "-">> \o Android \o
          <<"1", "2", "-", "9", " ", "#", "1", "\n">>,
      \* the same without the line feed
      LinuxVersion \o <<"5", ".", "4", ".", "0", "-">> \o Android \o <<"1", "2", "-", "9">>,
      \* two versions and two android tags
      <<"4", ".", "1", "9", "-">> \o Android \o <<"1", "1", " ", "6", ".", "6", "-">> \o Android \o
          <<"1", "5", "-">> \o Android \o <<"1", "6">>,
      \* a version before a blank and a tag after it
      <<"4", ".", "1", "4", " ">> \o Android \o <<"9">> }

RECURSIVE ImagesOf(_)
\* the kernel files made of at most n of these strings, each ended by NUL
ImagesOf(n) ==
    IF n = 0 THEN { << >> }
    ELSE ImagesOf(n - 1) \cup {b \o s \o <<NUL>> : b \in ImagesOf(n - 1), s \in KernelStrings}

\* the kernel files a patch may find after unpacking boot.img
KernelImages ==
    { KmiString \o <<NUL, NUL>> \o BannerString \o <<NUL>>,
      BannerString \o <<NUL>>,
      KmiString,
      << >> }

\* get_kmi on each of them
KernelScans == [k \in KernelImages |-> get_kmi(k)]

(***************************************************************************)
(* State.                                                                  *)
(***************************************************************************)
Tasks == {"t1", "t2"}

VARIABLES
    now,        \* SystemTime::now() in seconds
    dirs,       \* the directories tmp/<ts> that exist
    files,      \* the files <<dir, name>> that exist under them
    menu,       \* menu[t]: the commands task t may be handed
    pc,         \* where each handler task is
    cmd,        \* the command it was handed
    partitions, \* dump_partition: the names after split, sort and dedup
    temp_dir,   \* dump_partition: temp_dir
    listed,     \* dump_partition: what each get_rom_info call handed over
    infos,      \* dump_partition: files
    units,      \* dump_partition: one entry per spawned thread, in spawn order
    rxi,        \* dump_partition: the receiver being awaited
    ret,        \* what dump_partition returned
    finished,   \* the extraction units in the order they ended
    kernel,     \* get_kmi: the bytes read from the file kernel
    procs,      \* the subprocesses Patch::patch has run, in order
    meta,       \* Patch::patch: what get_kmi returned
    pret,       \* what patch_boot returned
    reply,      \* patch_cmd: what the handler did with the result
    entries,    \* remove_dir_all: the directory entries read and not yet unlinked
    child,      \* Command::output: how far the child process of the call has got
    basis,      \* Basis: the os and arch the tools are resolved for
    toolFile,   \* per tool: the state of the file at its local path
    binDir,     \* whether bin/<os>/<arch> exists
    calls       \* per tool: the Tool::init calls made so far

vars == <<now, dirs, files, menu, pc, cmd, partitions, temp_dir, listed, infos, units, rxi,
          ret, finished, kernel, procs, meta, pret, reply, entries, child, basis, toolFile,
          binDir, calls>>

taskVars == <<pc, cmd, partitions, temp_dir, listed, infos, units, rxi, ret, finished,
              kernel, procs, meta, pret, reply, entries, child>>
toolVars == <<basis, toolFile, binDir, calls>>

NoDir == -1
NoCmd == [kind |-> "none", url |-> "", arg |-> << >>, partition |-> "", method |-> ""]
DumpCmd(url, arg) == [kind |-> "dump", url |-> url, arg |-> arg, partition |-> "", method |-> ""]
PatchCmd(url, partition, method) ==
    [kind |-> "patch", url |-> url, arg |-> << >>, partition |-> partition, method |-> method]

NoRet == [state |-> "none", err |-> "", unit |-> 0, partitions |-> << >>, dir |-> NoDir]
RetOk(fs, dir) == [state |-> "ok", err |-> "", unit |-> 0, partitions |-> fs, dir |-> dir]
RetErr(e, i) == [state |-> "err", err |-> e, unit |-> i, partitions |-> << >>, dir |-> NoDir]

\* no kernel file read yet
NoKernel == <<"unread">>
NoMeta == [ok |-> FALSE, err |-> "", kmi |-> << >>, kernel_version |-> << >>, examined |-> 0]
NoPret == [state |-> "none", err |-> "", path |-> << >>, kmi |-> << >>, kernel_version |-> << >>]
PretOk(path, m) == [state |-> "ok", err |-> "", path |-> path, kmi |-> m.kmi,
                    kernel_version |-> m.kernel_version]
PretErr(e) == [state |-> "err", err |-> e, path |-> << >>, kmi |-> << >>, kernel_version |-> << >>]

Tools == {"ksud", "magiskboot"}

(***************************************************************************)
(* The file system under tmp/.                                             *)
(***************************************************************************)
\* faulty variant of FilesAfterCreateDirAll: an existing directory is emptied
FilesAfterFreshDir(fs, d) == {f \in fs : f[1] # d}

\* fs::create_dir_all(&temp_dir): an existing directory keeps what it holds
FilesAfterCreateDirAll(fs, d) == fs

\* read_dir: the files a directory holds
Entries(fs, d) == {f \in fs : f[1] = d}

(***************************************************************************)
(* Config::default().supported_partitions and the check dump_cmd makes.    *)
(***************************************************************************)
SupportedPartitions ==
    <<"boot", "dtbo", "init_boot", "modem", "modemfirmware", "recovery", "system_dlkm",
      "vbmeta", "vbmeta_system", "vbmeta_vendor", "vendor_boot", "vendor_dlkm">>

\* the closure handed to Iterator::map is never run: the adaptor is dropped
\* without being iterated, so unsupported_partitions stays empty
UnsupportedPartitions(supported, names) == << >>

(***************************************************************************)
(* Handler tasks (answer spawns one per command).                          *)
(***************************************************************************)
\* faulty variant of PatchBootValidate: the partition token is looked at first
PatchBootValidatePartitionFirst(method, partition) ==
    IF PatchPartitionFrom(partition) = "Err" THEN "invalid_partition"
    ELSE IF PatchMethodFrom(method) = "Err" THEN "invalid_method"
    ELSE ""

\* the Patch literal of patch_boot: PatchMethod::from(..)? then
\* PatchPartition::from(..)? ; "" when both tokens are accepted
PatchBootValidate(method, partition) ==
    IF PatchMethodFrom(method) = "Err" THEN "invalid_method"
    ELSE IF PatchPartitionFrom(partition) = "Err" THEN "invalid_partition"
    ELSE ""

\* arg.split_whitespace().collect(): the number of arguments of a command.  A
\* /dump command written with an empty arg is one that gives the url alone,
\* since split_whitespace yields no empty piece
ArgCount(c) == IF c.kind = "dump" /\ c.arg = << >> THEN 1 ELSE 2

\* dump_cmd / patch_cmd up to the first statements of dump_partition: a /dump
\* command that has not two arguments is answered with the usage and goes no
\* further; the status message is sent, patch_boot validates its two tokens, then
\* dump_partition normalises the names, reads the clock, creates the
\* directory and starts the listing thread
Receive(t, c) ==
    /\ pc[t] = "idle"
    /\ c \in menu[t]
    /\ cmd' = [cmd EXCEPT ![t] = c]
    /\ \E sent \in BOOLEAN, mk \in BOOLEAN :
         LET invalid  == c.kind = "dump" /\ ArgCount(c) # 2
             rejected == /\ c.kind = "dump"
                         /\ SupportedPartitions # << >>
                         /\ UnsupportedPartitions(SupportedPartitions, Split(c.arg)) # << >>
             verr == IF c.kind # "patch" THEN "" ELSE PatchBootValidate(c.method, c.partition)
             arg == IF c.kind = "dump" THEN c.arg ELSE Join(Images(c.partition))
         IN  IF invalid \/ rejected \/ ~sent
             THEN /\ pc' = [pc EXCEPT ![t] = "done"]
                  /\ reply' = [reply EXCEPT ![t] = IF ~sent THEN @
                                                   ELSE IF invalid THEN "invalid"
                                                   ELSE "not_supported"]
                  /\ UNCHANGED <<dirs, files, partitions, temp_dir, ret, pret>>
             ELSE IF verr # ""
             THEN /\ pc' = [pc EXCEPT ![t] = "patched"]
                  /\ pret' = [pret EXCEPT ![t] = PretErr(verr)]
                  /\ UNCHANGED <<dirs, files, partitions, temp_dir, ret, reply>>
             ELSE /\ partitions' = [partitions EXCEPT ![t] = RequestedNames(arg)]
                  /\ temp_dir' = [temp_dir EXCEPT ![t] = now]
                  /\ IF mk
                     THEN /\ dirs' = dirs \cup {now}
                          /\ files' = FilesAfterCreateDirAll(files, now)
                          /\ pc' = [pc EXCEPT ![t] = "listing"]
                          /\ UNCHANGED <<ret, pret, reply>>
                     ELSE /\ pc' = [pc EXCEPT ![t] = "dumped"]
                          /\ ret' = [ret EXCEPT ![t] = RetErr("mkdir", 0)]
                          /\ UNCHANGED <<dirs, files, pret, reply>>
    /\ UNCHANGED <<now, menu, listed, infos, units, rxi, finished, kernel, procs, meta, entries, child, toolVars>>

\* faulty variant of ListingOk: a listing that failed is taken for a listing
ListingOkAlways(o) == TRUE

\* get_rom_info(url.clone()).await? : dump_partition goes on only with Ok
ListingOk(o) == o = "ok"

\* get_rom_info returns, and on success the for loop builds the
\* PartitionInfo entries and spawns the extraction threads
ListingDone(t) ==
    /\ pc[t] = "listing"
    /\ \E o \in ListOutcomes(cmd[t].url) :
         /\ listed' = [listed EXCEPT ![t] = Append(@, o)]
         /\ IF ListingOk(o)
            THEN LET fs == BuildFiles(RemoteListing, temp_dir[t], partitions[t])
                 IN  /\ infos' = [infos EXCEPT ![t] = fs]
                     /\ units' = [units EXCEPT ![t] =
                                    [i \in 1..Len(fs) |-> [name |-> fs[i].name, state |-> "running"]]]
                     /\ IF fs = << >>
                        THEN /\ pc' = [pc EXCEPT ![t] = "dumped"]
                             /\ ret' = [ret EXCEPT ![t] = RetOk(fs, temp_dir[t])]
                             /\ UNCHANGED rxi
                        ELSE /\ pc' = [pc EXCEPT ![t] = "await"]
                             /\ rxi' = [rxi EXCEPT ![t] = 1]
                             /\ UNCHANGED ret
            ELSE /\ pc' = [pc EXCEPT ![t] = "dumped"]
                 /\ ret' = [ret EXCEPT ![t] = RetErr(IF o = "err" THEN "list" ELSE "recv", 0)]
                 /\ UNCHANGED <<infos, units, rxi>>
    /\ UNCHANGED <<now, dirs, files, menu, cmd, partitions, temp_dir, finished, kernel, procs, meta, pret, reply, entries, child, toolVars>>

\* an extraction thread, inside extract_partition_remote_zip: the image is
\* written at out_put, which takes the directory to be there.  (The function
\* belongs to the payload_dumper crate, whose source is not part of the
\* repository: all that is taken from it is that it returns Ok only after it
\* wrote the image, and that it removes nothing)
UnitWrite(t, i) ==
    /\ i \in 1..Len(units[t])
    /\ units[t][i].state = "running"
    /\ temp_dir[t] \in dirs
    /\ units' = [units EXCEPT ![t][i].state = "written"]
    /\ files' = files \cup {infos[t][i].path}
    /\ UNCHANGED <<now, dirs, menu, pc, cmd, partitions, temp_dir, listed, infos, rxi, ret, finished, kernel, procs, meta, pret, reply, entries, child, toolVars>>

\* an extraction thread ends: extract_partition_remote_zip returned Ok, having
\* written the image, or returned an error, before or after it wrote, and
\* tx.send(result) hands that over; or the thread ended without sending
UnitDone(t, i) ==
    /\ i \in 1..Len(units[t])
    /\ units[t][i].state \in {"running", "written"}
    /\ \E o \in UnitOutcomes :
         /\ o = "ok" => units[t][i].state = "written"
         /\ units' = [units EXCEPT ![t][i].state = o]
    /\ finished' = [finished EXCEPT ![t] = Append(@, i)]
    /\ UNCHANGED <<now, dirs, files, menu, pc, cmd, partitions, temp_dir, listed, infos, rxi, ret, kernel, procs, meta, pret, reply, entries, child, toolVars>>

\* faulty variant of RecvOutcome: rx.await? , the unit's own result dropped
RecvOutcomeOuterOnly(state) == IF state = "gone" THEN "recv" ELSE "ok"

\* rx.await?? : the receive error, then the unit's own result
RecvOutcome(state) ==
    IF state = "gone" THEN "recv" ELSE IF state = "err" THEN "extract" ELSE "ok"

\* faulty variant of ReturnedFiles: the entries in the order the units ended
ReturnedFilesAsFinished(fs, fin) == [i \in 1..Len(fs) |-> fs[fin[i]]]

\* Ok((files, temp_dir)): files as the spawn loop pushed them
ReturnedFiles(fs, fin) == fs

\* faulty variant of Awaited: a unit that has failed is looked at at once
AwaitedFailedFirst(us, i) ==
    IF \E j \in i..Len(us) : us[j].state \in {"err", "gone"}
    THEN CHOOSE j \in i..Len(us) : us[j].state \in {"err", "gone"}
    ELSE i

\* for rx in receivers: the receiver awaited after i - 1 of them yielded Ok is
\* the one of the i-th thread spawned, whatever the states of the others
Awaited(us, i) == i

\* the thread of a unit has not ended: it has yet to write its image, or has
\* written it and has yet to send
Running(state) == state \in {"running", "written"}

\* faulty variant of Ready: a sender dropped without sending wakes nobody
ReadyOnSendOnly(state) == state \in {"ok", "err"}

\* rx.await resolves once the thread has sent its result, or has ended and
\* dropped the sender without sending
Ready(state) == ~Running(state)

\* for rx in receivers { rx.await??; } Ok((files, temp_dir))
Await(t) ==
    /\ pc[t] = "await"
    /\ Ready(units[t][Awaited(units[t], rxi[t])].state)
    /\ LET o == RecvOutcome(units[t][Awaited(units[t], rxi[t])].state)
       IN  IF o # "ok"
           THEN /\ pc' = [pc EXCEPT ![t] = "dumped"]
                /\ ret' = [ret EXCEPT ![t] = RetErr(o, Awaited(units[t], rxi[t]))]
                /\ UNCHANGED rxi
           ELSE IF rxi[t] = Len(units[t])
           THEN /\ pc' = [pc EXCEPT ![t] = "dumped"]
                /\ ret' = [ret EXCEPT ![t] = RetOk(ReturnedFiles(infos[t], finished[t]), temp_dir[t])]
                /\ UNCHANGED rxi
           ELSE /\ rxi' = [rxi EXCEPT ![t] = @ + 1]
                /\ UNCHANGED <<pc, ret>>
    /\ UNCHANGED <<now, dirs, files, menu, cmd, partitions, temp_dir, listed, infos, units, finished, kernel, procs, meta, pret, reply, entries, child, toolVars>>

\* dump_cmd after dump_partition returned, up to the last chat API call: on
\* Ok the replies, the upload, the sleep and delete_message, after which
\* remove_dir_all is called unless a chat API call failed first; on Err the
\* error is reported
DumpCmdFinish(t) ==
    /\ pc[t] = "dumped"
    /\ cmd[t].kind = "dump"
    /\ \E api \in BOOLEAN :
         pc' = [pc EXCEPT ![t] = IF ret[t].state = "ok" /\ api THEN "cleanup" ELSE "done"]
    /\ UNCHANGED <<now, dirs, files, menu, cmd, partitions, temp_dir, listed, infos, units, rxi, ret, finished, kernel, procs, meta, pret, reply, entries, child, toolVars>>

\* how a subprocess that was launched ended
ExitStatuses == {"zero", "nonzero"}

\* the record kept of one Command::output call
Proc(prog, launched, exit) ==
    [prog |-> prog, launched |-> launched, exit |-> IF launched THEN exit ELSE "none"]

\* faulty variant of OutputFails: a failing exit status is an error too
OutputFailsOnStatus(launched, exit) == ~launched \/ exit = "nonzero"

\* Command::output()? : the error is the I/O error of a launch that failed; the
\* exit status in the Output is not looked at
OutputFails(launched, exit) == ~launched

\* the file at a tool's local path is "absent", or whole or truncated, with
\* or without its execute bits: "written" is whole without them (mode 644),
\* "ready" whole with them (mode 755), "partial" truncated without them and
\* "partial755" truncated with them
HasExecBits(file) == file \in {"ready", "partial755"}

\* whether the file at a tool's local path has its execute bits, without
\* which Command::output fails to launch it: fs::write creates a file
\* without them and keeps those of a file it rewrites, set_permissions(0o755)
\* sets them.  A truncated file that has them may or may not be launched
Executable(file) == HasExecBits(file)

\* Command::output runs a child process in the dump's directory and waits for
\* it.  What the child does there happens while the handler is blocked in the
\* call, at moments of its own: child[t] is "none" outside such a call,
\* "started" once the program is launched, "input" or "no_input" once it has
\* tried to open the image it was given, "output" once it has written its
\* result into the directory.

\* the image the child is given: boot.img for magiskboot unpack,
\* <partition>.img (-b) for ksud boot-patch
ChildInput(t) ==
    IF pc[t] = "unpacking" THEN <<ret[t].dir, <<"boot", ".img">> >>
    ELSE <<ret[t].dir, PatcherImage(PatchPartitionFrom(cmd[t].partition))>>

\* Patch::patch: dir with patched_name pushed onto it, the --out-name file
PatchedPath(t) ==
    <<ret[t].dir, PatchedName(PatchMethodFrom(cmd[t].method),
                              PatchPartitionFrom(cmd[t].partition), meta[t].kmi)>>

\* the file the child writes: kernel for magiskboot unpack, the --out-name
\* file for ksud boot-patch
ChildOutput(t) ==
    IF pc[t] = "unpacking" THEN <<ret[t].dir, <<"kernel">> >> ELSE PatchedPath(t)

\* Patch::patch for a finished dump, up to the launch of the unpack helper by
\* Command::output in get_kmi.  patch_boot returns the dump's error, or the
\* Magisk arm's error; otherwise the helper is launched in the dump's
\* directory, which fails when the directory is gone or the file of the tool
\* cannot be executed
PatchUnpack(t) ==
    /\ pc[t] = "dumped"
    /\ cmd[t].kind = "patch"
    /\ \E launch \in BOOLEAN :
         LET dir      == ret[t].dir
             ran      == ret[t].state = "ok" /\ PatchMethodFrom(cmd[t].method) = "KernelSU"
             launched == ran /\ launch /\ dir \in dirs /\ Executable(toolFile["magiskboot"])
             e        == IF ret[t].state # "ok" THEN ret[t].err
                         ELSE IF PatchMethodFrom(cmd[t].method) = "Magisk" THEN "not_implemented"
                         ELSE IF OutputFails(launched, "none") THEN "unpack_launch"
                         ELSE ""
         IN  IF launched
             THEN /\ pc' = [pc EXCEPT ![t] = "unpacking"]
                  /\ child' = [child EXCEPT ![t] = "started"]
                  /\ UNCHANGED <<procs, pret>>
             ELSE /\ pc' = [pc EXCEPT ![t] = "patched"]
                  /\ pret' = [pret EXCEPT ![t] = PretErr(e)]
                  /\ procs' = IF ran THEN [procs EXCEPT ![t] = Append(@, Proc("magiskboot", FALSE, "none"))]
                              ELSE procs
                  /\ UNCHANGED child
    /\ UNCHANGED <<now, dirs, files, menu, cmd, partitions, temp_dir, listed, infos, units, rxi, ret, finished, kernel, meta, reply, entries, toolVars>>

\* the child opens the image it was given, which is there or not when it does
ChildOpen(t) ==
    /\ pc[t] \in {"unpacking", "bootpatch"}
    /\ child[t] = "started"
    /\ child' = [child EXCEPT ![t] = IF ChildInput(t) \in files THEN "input" ELSE "no_input"]
    /\ UNCHANGED <<now, dirs, files, menu, pc, cmd, partitions, temp_dir, listed, infos, units, rxi, ret, finished, kernel, procs, meta, pret, reply, entries, toolVars>>

\* the child writes its result, made from the image it opened, into its
\* working directory, which takes the directory to be there still
ChildWrite(t) ==
    /\ pc[t] \in {"unpacking", "bootpatch"}
    /\ child[t] = "input"
    /\ ret[t].dir \in dirs
    /\ child' = [child EXCEPT ![t] = "output"]
    /\ files' = files \cup {ChildOutput(t)}
    /\ UNCHANGED <<now, dirs, menu, pc, cmd, partitions, temp_dir, listed, infos, units, rxi, ret, finished, kernel, procs, meta, pret, reply, entries, toolVars>>

\* the unpack helper ends, wherever it had got and with whatever status, and
\* its Command::output in get_kmi returns
UnpackReturn(t) ==
    /\ pc[t] = "unpacking"
    /\ \E exit \in ExitStatuses :
         /\ procs' = [procs EXCEPT ![t] = Append(@, Proc("magiskboot", TRUE, exit))]
         /\ IF OutputFails(TRUE, exit)
            THEN /\ pc' = [pc EXCEPT ![t] = "patched"]
                 /\ pret' = [pret EXCEPT ![t] = PretErr("unpack_launch")]
            ELSE /\ pc' = [pc EXCEPT ![t] = "unpacked"]
                 /\ UNCHANGED pret
    /\ child' = [child EXCEPT ![t] = "none"]
    /\ UNCHANGED <<now, dirs, files, menu, cmd, partitions, temp_dir, listed, infos, units, rxi, ret, finished, kernel, meta, reply, entries, toolVars>>

\* get_kmi after the helper returned: File::open(dir.join("kernel"))?, the
\* read and the scan.  The file is looked for when this step runs, so one
\* the helper wrote may be gone, and one another patch wrote may be found
PatchGetKmi(t) ==
    /\ pc[t] = "unpacked"
    /\ \E k \in KernelImages :
         LET readable == <<ret[t].dir, <<"kernel">> >> \in files
             m        == KernelScans[k]
             e        == IF ~readable THEN "io" ELSE IF ~m.ok THEN m.err ELSE ""
         IN  /\ kernel' = IF readable THEN [kernel EXCEPT ![t] = k] ELSE kernel
             /\ IF e # ""
                THEN /\ pc' = [pc EXCEPT ![t] = "patched"]
                     /\ pret' = [pret EXCEPT ![t] = PretErr(e)]
                     /\ UNCHANGED meta
                ELSE /\ pc' = [pc EXCEPT ![t] = "patching"]
                     /\ meta' = [meta EXCEPT ![t] = m]
                     /\ UNCHANGED pret
    /\ UNCHANGED <<now, dirs, files, menu, cmd, partitions, temp_dir, listed, infos, units, rxi, ret, finished, procs, reply, entries, child, toolVars>>

\* Patch::patch after get_kmi returned Ok: the patcher is launched by
\* Command::output in the dump's directory; a failure to launch is the only
\* error of the call
PatchRun(t) ==
    /\ pc[t] = "patching"
    /\ \E launch \in BOOLEAN :
         LET launched == launch /\ ret[t].dir \in dirs /\ Executable(toolFile["ksud"])
         IN  IF launched
             THEN /\ pc' = [pc EXCEPT ![t] = "bootpatch"]
                  /\ child' = [child EXCEPT ![t] = "started"]
                  /\ UNCHANGED <<procs, pret>>
             ELSE /\ pc' = [pc EXCEPT ![t] = "patched"]
                  /\ procs' = [procs EXCEPT ![t] = Append(@, Proc("ksud", FALSE, "none"))]
                  /\ pret' = [pret EXCEPT ![t] =
                                IF OutputFails(FALSE, "none") THEN PretErr("patch_launch")
                                ELSE PretOk(PatchedPath(t), meta[t])]
                  /\ UNCHANGED child
    /\ UNCHANGED <<now, dirs, files, menu, cmd, partitions, temp_dir, listed, infos, units, rxi, ret, finished, kernel, meta, reply, entries, toolVars>>

\* the patcher ends, wherever it had got and with whatever status, its
\* Command::output returns and Patch::patch returns the path it has put
\* together, whether or not a file is there
PatchReturn(t) ==
    /\ pc[t] = "bootpatch"
    /\ \E exit \in ExitStatuses :
         /\ procs' = [procs EXCEPT ![t] = Append(@, Proc("ksud", TRUE, exit))]
         /\ pret' = [pret EXCEPT ![t] =
                       IF OutputFails(TRUE, exit) THEN PretErr("patch_launch")
                       ELSE PretOk(PatchedPath(t), meta[t])]
    /\ pc' = [pc EXCEPT ![t] = "patched"]
    /\ child' = [child EXCEPT ![t] = "none"]
    /\ UNCHANGED <<now, dirs, files, menu, cmd, partitions, temp_dir, listed, infos, units, rxi, ret, finished, kernel, meta, reply, entries, toolVars>>

\* patch_cmd after patch_boot returned, up to the last chat API call.  On Err
\* the error is reported and the handler ends.  On Ok the status message is
\* edited, the file is uploaded if it exists and reported as not found
\* otherwise; a failing chat API call (api1 before the existence test, api2
\* after it) ends the handler at once, before the directory is removed
PatchCmdReply(t) ==
    /\ pc[t] = "patched"
    /\ \E api1 \in BOOLEAN, upload \in BOOLEAN, api2 \in BOOLEAN :
         LET exists == pret[t].path \in files
             r      == IF pret[t].state # "ok" THEN "failed"
                       ELSE IF ~api1 THEN "api_error"
                       ELSE IF ~exists THEN "not_found"
                       ELSE IF upload THEN "uploaded"
                       ELSE "upload_failed"
         IN  /\ reply' = [reply EXCEPT ![t] = r]
             /\ pc' = [pc EXCEPT ![t] = IF pret[t].state = "ok" /\ api1 /\ api2
                                        THEN "cleanup" ELSE "done"]
    /\ UNCHANGED <<now, dirs, files, menu, cmd, partitions, temp_dir, listed, infos, units, rxi, ret, finished, kernel, procs, meta, pret, entries, child, toolVars>>

\* the directory a handler calls remove_dir_all on: the one dump_partition
\* returned to dump_cmd, the parent of the path patch_boot returned to patch_cmd
CleanupDir(t) == IF cmd[t].kind = "dump" THEN ret[t].dir ELSE pret[t].path[1]

\* std::fs::remove_dir_all at the end of the Ok arm of dump_cmd and of
\* patch_cmd, the opening: the directory is opened and its entries are read.
\* A directory that is not there is an error, which the handler logs
RemoveDirAllOpen(t) ==
    /\ pc[t] = "cleanup"
    /\ IF CleanupDir(t) \in dirs
       THEN /\ entries' = [entries EXCEPT ![t] = Entries(files, CleanupDir(t))]
            /\ pc' = [pc EXCEPT ![t] = "unlinking"]
       ELSE /\ pc' = [pc EXCEPT ![t] = "done"]
            /\ UNCHANGED entries
    /\ UNCHANGED <<now, dirs, files, menu, cmd, partitions, temp_dir, listed, infos, units, rxi, ret, finished, kernel, procs, meta, pret, reply, child, toolVars>>

\* remove_dir_all unlinks one of the entries it read, in whatever order the
\* directory gave them.  An entry that somebody else has removed meanwhile is
\* passed over by a standard library that ignores NotFound here (tolerant) and
\* ends the call with that error, logged, by an earlier one
RemoveDirAllUnlink(t, f) ==
    /\ pc[t] = "unlinking"
    /\ f \in entries[t]
    /\ \E tolerant \in BOOLEAN :
         IF f \in files \/ tolerant
         THEN /\ files' = files \ {f}
              /\ entries' = [entries EXCEPT ![t] = @ \ {f}]
              /\ UNCHANGED pc
         ELSE /\ pc' = [pc EXCEPT ![t] = "done"]
              /\ entries' = [entries EXCEPT ![t] = {}]
              /\ UNCHANGED files
    /\ UNCHANGED <<now, dirs, menu, cmd, partitions, temp_dir, listed, infos, units, rxi, ret, finished, kernel, procs, meta, pret, reply, child, toolVars>>

\* remove_dir_all, the end: the directory itself is removed, which fails, and
\* is logged only, when a file was written into it after its entries were read
RemoveDirAllRmdir(t) ==
    /\ pc[t] = "unlinking"
    /\ entries[t] = {}
    /\ pc' = [pc EXCEPT ![t] = "done"]
    /\ dirs' = IF Entries(files, CleanupDir(t)) = {} THEN dirs \ {CleanupDir(t)} ELSE dirs
    /\ UNCHANGED <<now, files, menu, cmd, partitions, temp_dir, listed, infos, units, rxi, ret, finished, kernel, procs, meta, pret, reply, entries, child, toolVars>>

\* a second of wall-clock time passes
Tick ==
    /\ now < MaxTime
    /\ now' = now + 1
    /\ UNCHANGED <<dirs, files, menu, taskVars, toolVars>>

(***************************************************************************)
(* Tool acquisition.  An asset or archive-member name is the sequence of   *)
(* the pieces format! puts together.                                       *)
(***************************************************************************)
IsPrefix(p, s) == Len(p) <= Len(s) /\ SubSeq(s, 1, Len(p)) = p

Platforms == [os : {"linux", "android"}, arch : {"x86_64", "aarch64"}]

\* KSUD::get_latest: assert_name
KsudAssetName(b) ==
    <<"ksud", "-", b.arch, "-", IF b.os = "linux" THEN "unknown-linux-musl" ELSE "linux-android">>

\* MAGISKBOOT::get_latest: bin_name
MagiskbootMember(b) ==
    <<"lib/", IF b.arch = "x86_64" THEN "x86_64" ELSE "arm64-v8a", "/libmagiskboot.so">>

\* one element of the release's assets array: asset["name"] is a JSON string
\* (str, with name its text) or something else (null, a number, no such key),
\* and asset["browser_download_url"] is a JSON string (url) or not
Asset(name, url) == [name |-> name, str |-> TRUE, url |-> url]
UnnamedAsset(url) == [name |-> << >>, str |-> FALSE, url |-> url]

\* the predicate each tool's find applies to an asset:
\* asset["name"].as_str() == Some(assert_name) for ksud,
\* asset["name"].as_str().unwrap().starts_with("Magisk-v") for magiskboot
AssetMatches(tool, b, asset) ==
    /\ asset.str
    /\ IF tool = "ksud" THEN asset.name = KsudAssetName(b)
       ELSE IsPrefix(<<"Magisk-v">>, asset.name)

\* the predicate panics on the asset: magiskboot's closure unwraps as_str(),
\* which is None for a name that is not a string; ksud's compares the Option
Panics(tool, asset) == tool = "magiskboot" /\ ~asset.str

\* what find returns in place of an index when its closure panicked
Panicked == -1

\* assets.iter().find(..): index of the first match, 0 for None.  The closure
\* is applied to the assets in order up to the first match, so it panics when
\* an asset it panics on comes before any match
FindAsset(tool, b, assets) ==
    LET hits  == {i \in 1..Len(assets) : AssetMatches(tool, b, assets[i])}
        first == IF hits = {} THEN Len(assets) + 1
                 ELSE CHOOSE i \in hits : \A j \in hits : i <= j
    IN  IF \E j \in 1..(first - 1) : Panics(tool, assets[j]) THEN Panicked
        ELSE IF hits = {} THEN 0
        ELSE first

Release(ok, assets) == [ok |-> ok, assets |-> assets]

\* what the release host may answer: an error (a failing status, a body that
\* is no JSON or has no assets array), or the assets of the release, each with
\* or without a name and a download url that are strings
Releases(tool) ==
    IF tool = "ksud"
    THEN { Release(FALSE, << >>),
           Release(TRUE, << Asset(<<"ksud", "-", "x86_64", "-", "unknown-linux-musl">>, TRUE),
                            Asset(<<"ksud", "-", "aarch64", "-", "unknown-linux-musl">>, TRUE),
                            Asset(<<"ksud", "-", "x86_64", "-", "linux-android">>, TRUE),
                            Asset(<<"ksud", "-", "aarch64", "-", "linux-android">>, TRUE) >>),
           Release(TRUE, << UnnamedAsset(TRUE),
                            Asset(<<"ksud", "-", "x86_64", "-", "unknown-linux-musl">>, FALSE),
                            Asset(<<"ksud", "-", "aarch64", "-", "unknown-linux-musl">>, TRUE),
                            Asset(<<"ksud", "-", "x86_64", "-", "linux-android">>, TRUE),
                            Asset(<<"ksud", "-", "aarch64", "-", "linux-android">>, FALSE) >>),
           Release(TRUE, << Asset(<<"ksud", "-", "x86_64", "-", "pc-windows-gnu">>, TRUE) >>),
           Release(TRUE, << UnnamedAsset(TRUE) >>),
           Release(TRUE, << >>) }
    ELSE { Release(FALSE, << >>),
           Release(TRUE, << Asset(<<"notes", ".md">>, TRUE), Asset(<<"Magisk-v", "27.0", ".apk">>, TRUE),
                            Asset(<<"Magisk-v", "27.0", "-debug.apk">>, FALSE), UnnamedAsset(TRUE) >>),
           Release(TRUE, << Asset(<<"Magisk-v", "27.0", ".apk">>, FALSE),
                            Asset(<<"Magisk-v", "27.0", "-debug.apk">>, TRUE) >>),
           Release(TRUE, << UnnamedAsset(TRUE), Asset(<<"Magisk-v", "27.0", ".apk">>, TRUE) >>),
           Release(TRUE, << Asset(<<"app-release", ".apk">>, TRUE), UnnamedAsset(TRUE) >>),
           Release(TRUE, << Asset(<<"app-release", ".apk">>, TRUE) >>),
           Release(TRUE, << >>) }

Download(kind, members) == [kind |-> kind, members |-> members]

\* what the download may yield: an error, or the bytes; the Magisk asset is
\* read as a zip archive, given by its member names, or is no zip archive
Downloads(tool) ==
    IF tool = "ksud" THEN { Download("err", << >>), Download("bytes", << >>) }
    ELSE { Download("err", << >>), Download("notzip", << >>),
           Download("zip", << <<"lib/", "x86_64", "/libmagiskboot.so">>,
                              <<"lib/", "arm64-v8a", "/libmagiskboot.so">>,
                              <<"classes", ".dex">> >>),
           Download("zip", << <<"lib/", "armeabi-v7a", "/libmagiskboot.so">>,
                              <<"classes", ".dex">> >>) }

Env(r, d, mk, w, c) == [release |-> r, download |-> d, mkdir |-> mk, write |-> w, chmod |-> c]

\* download_asset gets as far as its request: find returned an asset, and its
\* browser_download_url is a string
DownloadAsked(tool, b, r) ==
    /\ r.ok
    /\ FindAsset(tool, b, r.assets) > 0
    /\ r.assets[FindAsset(tool, b, r.assets)].url

\* the answers of the network and the file system to one Tool::init.  Only
\* those the call asks for vary: none when the file exists, none after a
\* failing step, create_dir_all's only where the directory is missing (it
\* succeeds on one that exists), fs::write's only where there is something to
\* write, set_permissions' only after a write that was whole
Envs(tool, b, file, bdir) ==
    LET none == Env(Release(FALSE, << >>), Download("err", << >>), TRUE, "ok", TRUE)
        found == {r \in Releases(tool) : DownloadAsked(tool, b, r)}
        bytes == {d \in Downloads(tool) : d.kind # "err"}
        writes(d) == d.kind = "bytes" \/ \E i \in 1..Len(d.members) : d.members[i] = MagiskbootMember(b)
    IN  IF file # "absent" THEN {none}
        ELSE {Env(r, none.download, TRUE, "ok", TRUE) : r \in Releases(tool) \ found}
             \cup {Env(r, d, TRUE, "ok", TRUE) : r \in found, d \in Downloads(tool) \ bytes}
             \cup {Env(r, d, FALSE, "ok", TRUE) : r \in {x \in found : ~bdir}, d \in bytes}
             \cup {Env(r, d, TRUE, "ok", TRUE) : r \in found, d \in {x \in bytes : ~writes(x)}}
             \cup {Env(r, d, TRUE, w, TRUE) : r \in found, d \in {x \in bytes : writes(x)},
                                              w \in {"partial", "fail"}}
             \cup {Env(r, d, TRUE, "ok", c) : r \in found, d \in {x \in bytes : writes(x)},
                                              c \in BOOLEAN}

\* faulty variant of FileAfterWrite: a write that was cut short leaves no file
FileAfterWriteOrNothing(file, w) ==
    IF w = "ok" THEN (IF HasExecBits(file) THEN "ready" ELSE "written")
    ELSE IF w = "partial" THEN "absent"
    ELSE file

\* fs::set_permissions(path, 0o755) on a file that exists: the content stays
\* as it is, whole or truncated
FileAfterChmod(file) == IF file \in {"partial", "partial755"} THEN "partial755" ELSE "ready"

\* fs::write to the local path: the content is replaced, whole (ok) or cut
\* short (partial), or the file could not be opened (fail); a file that was
\* there keeps its mode, a new one has no execute bit
FileAfterWrite(file, w) ==
    IF w = "ok" THEN (IF HasExecBits(file) THEN "ready" ELSE "written")
    ELSE IF w = "partial" THEN (IF HasExecBits(file) THEN "partial755" ELSE "partial")
    ELSE file

Outcome(res, file, bdir, requests, writes) ==
    [result |-> res, file |-> file, binDir |-> bdir, requests |-> requests, writes |-> writes]

\* get_assets, find and download_asset, the steps the two get_latest bodies
\* share up to the bytes of the asset: "" when the bytes arrived, else how the
\* call ended.  A panic of find's closure ends the process, since main awaits
\* ToolManager::init on its own task
FetchAsset(tool, b, env) ==
    LET i == FindAsset(tool, b, env.release.assets)
    IN  IF ~env.release.ok THEN "release_fetch"
        ELSE IF i = Panicked THEN "panic"
        ELSE IF i = 0 THEN "asset_not_found"
        ELSE IF ~env.release.assets[i].url THEN "download_url_not_found"
        ELSE IF env.download.kind = "err" THEN "download"
        ELSE ""

\* the requests made up to there: the one for the release, and the one for
\* the asset once download_asset has its url
FetchRequests(tool, b, env) ==
    IF FetchAsset(tool, b, env) \in {"", "download"} THEN 2 ELSE 1

\* KSUD::get_latest
GetLatestKsud(b, file, bdir, env) ==
    LET e == FetchAsset("ksud", b, env)
        n == FetchRequests("ksud", b, env)
    IN  IF e # "" THEN Outcome(e, file, bdir, n, 0)
        ELSE IF ~bdir /\ ~env.mkdir THEN Outcome("io", file, bdir, n, 0)
        ELSE IF env.write # "ok"
             THEN Outcome("io", FileAfterWrite(file, env.write), TRUE, n, IF env.write = "partial" THEN 1 ELSE 0)
        ELSE IF ~env.chmod THEN Outcome("io", FileAfterWrite(file, "ok"), TRUE, n, 1)
        ELSE Outcome("ok", FileAfterChmod(FileAfterWrite(file, "ok")), TRUE, n, 1)

\* MAGISKBOOT::get_latest
GetLatestMagiskboot(b, file, bdir, env) ==
    LET e == FetchAsset("magiskboot", b, env)
        n == FetchRequests("magiskboot", b, env)
    IN  IF e # "" THEN Outcome(e, file, bdir, n, 0)
        ELSE IF ~bdir /\ ~env.mkdir THEN Outcome("io", file, bdir, n, 0)
        ELSE IF env.download.kind = "notzip" THEN Outcome("zip", file, TRUE, n, 0)
        ELSE LET member == \E i \in 1..Len(env.download.members) :
                                env.download.members[i] = MagiskbootMember(b)
             IN  IF member /\ env.write # "ok"
                 THEN Outcome("io", FileAfterWrite(file, env.write), TRUE, n,
                              IF env.write = "partial" THEN 1 ELSE 0)
                 ELSE LET f == IF member THEN FileAfterWrite(file, "ok") ELSE file
                          w == IF member THEN 1 ELSE 0
                      IN  IF f = "absent" \/ ~env.chmod THEN Outcome("io", f, TRUE, n, w)
                          ELSE Outcome("ok", FileAfterChmod(f), TRUE, n, w)

get_latest(tool, b, file, bdir, env) ==
    IF tool = "ksud" THEN GetLatestKsud(b, file, bdir, env)
    ELSE GetLatestMagiskboot(b, file, bdir, env)

\* self.get().exists()
Exists(file) == file # "absent"

\* faulty variant of ToolInit: no existence check
ToolInitAlwaysFetch(tool, b, file, bdir, env) ==
    [fetched |-> TRUE, out |-> get_latest(tool, b, file, bdir, env)]

\* Tool::init
ToolInit(tool, b, file, bdir, env) ==
    IF Exists(file)
    THEN [fetched |-> FALSE, out |-> Outcome("ok", file, bdir, 0, 0)]
    ELSE [fetched |-> TRUE, out |-> get_latest(tool, b, file, bdir, env)]

\* the record kept of one Tool::init call: what it found, what the network
\* and the file system answered, what it returned and what it left behind
Call(file, bdir, env, r) ==
    [existed |-> Exists(file), fetched |-> r.fetched, env |-> env, result |-> r.out.result,
     requests |-> r.out.requests, writes |-> r.out.writes, left |-> Exists(r.out.file),
     mkdir |-> r.out.binDir /\ ~bdir]

\* one run of ToolManager::init, as main makes at every start of the process:
\* self.ksud.init().await?; self.magiskboot.init().await?
ManagerInit ==
    /\ Len(calls["ksud"]) < MaxCalls
    /\ \E e1 \in Envs("ksud", basis, toolFile["ksud"], binDir) :
         LET r1 == ToolInit("ksud", basis, toolFile["ksud"], binDir, e1)
         IN  IF r1.out.result # "ok"
             THEN /\ toolFile' = [toolFile EXCEPT !["ksud"] = r1.out.file]
                  /\ binDir' = r1.out.binDir
                  /\ calls' = [calls EXCEPT !["ksud"] = Append(@, Call(toolFile["ksud"], binDir, e1, r1))]
             ELSE \E e2 \in Envs("magiskboot", basis, toolFile["magiskboot"], r1.out.binDir) :
                    LET r2 == ToolInit("magiskboot", basis, toolFile["magiskboot"], r1.out.binDir, e2)
                    IN  /\ toolFile' = [k \in Tools |-> IF k = "ksud" THEN r1.out.file ELSE r2.out.file]
                        /\ binDir' = r2.out.binDir
                        /\ calls' = [k \in Tools |->
                                       IF k = "ksud" THEN Append(calls[k], Call(toolFile[k], binDir, e1, r1))
                                       ELSE Append(calls[k], Call(toolFile[k], r1.out.binDir, e2, r2))]
    /\ UNCHANGED <<now, dirs, files, menu, taskVars, basis>>

(***************************************************************************)
(* Specifications.                                                         *)
(***************************************************************************)
\* the commands each of two concurrent handlers may be given
Menu ==
    [t \in Tasks |->
        IF t = "t1"
        THEN { DumpCmd("good", <<"vbmeta", ",", "boot">>),
               PatchCmd("good", "boot", "ksu") }
        ELSE { DumpCmd("good", <<",">>),
               PatchCmd("good", "ib", "k") }]

\* the /dump commands one handler is given: each with the two arguments
\* dump_cmd asks for, but the one written with an empty arg, which gives the
\* url alone
DumpMenu ==
    { DumpCmd("good", <<"vbmeta", ",", "boot", ",", "vbmeta">>),
      DumpCmd("good", <<"vendor_boot", ",", "system", ",", "init_boot", ",", "boot">>),
      DumpCmd("good", <<"boot", ",", "vbmeta">>),
      DumpCmd("good", <<"system", ",", ",", "system">>),
      DumpCmd("good", <<"modem", ",", "dtbo">>),
      DumpCmd("good", <<",">>),
      DumpCmd("good", << >>),
      DumpCmd("bad", <<"boot", ",", "boot">>) }

\* every /patch command over the tokens below
AllPatchMenu ==
    { PatchCmd(u, p, m) : u \in Urls,
                          p \in {"boot", "b", "init_boot", "ib", "vendor_boot", "vb", "system"},
                          m \in {"kernelsu", "ksu", "k", "magisk", "m", "apatch"} }

InitTasks(mn) ==
    /\ now = 0
    /\ dirs = {}
    /\ files = {}
    /\ menu = mn
    /\ pc = [t \in Tasks |-> "idle"]
    /\ cmd = [t \in Tasks |-> NoCmd]
    /\ partitions = [t \in Tasks |-> << >>]
    /\ temp_dir = [t \in Tasks |-> NoDir]
    /\ listed = [t \in Tasks |-> << >>]
    /\ infos = [t \in Tasks |-> << >>]
    /\ units = [t \in Tasks |-> << >>]
    /\ rxi = [t \in Tasks |-> 0]
    /\ ret = [t \in Tasks |-> NoRet]
    /\ finished = [t \in Tasks |-> << >>]
    /\ procs = [t \in Tasks |-> << >>]
    /\ meta = [t \in Tasks |-> NoMeta]
    /\ pret = [t \in Tasks |-> NoPret]
    /\ reply = [t \in Tasks |-> ""]
    /\ entries = [t \in Tasks |-> {}]
    /\ child = [t \in Tasks |-> "none"]

\* the states of a tool's file that let Tool::init return Ok: the file exists,
\* whole or truncated, with or without its execute bits, as an earlier run or
\* whoever put it there left it
Present == {"partial", "partial755", "written", "ready"}

\* main has run ToolManager::init, which returned Ok for both tools, and
\* removed tmp before the dispatcher starts
ToolsPresent ==
    /\ basis = [os |-> "linux", arch |-> "x86_64"]
    /\ toolFile \in [Tools -> Present]
    /\ binDir = TRUE
    /\ calls = [k \in Tools |-> << >>]

\* the same start with fewer files to tell apart: a handler looks at a tool's
\* file only by launching it, which its execute bits decide, so a file
\* without them and a file with them stand for the four of Present
ToolsByMode ==
    /\ basis = [os |-> "linux", arch |-> "x86_64"]
    /\ toolFile \in [Tools -> {"partial", "ready"}]
    /\ binDir = TRUE
    /\ calls = [k \in Tools |-> << >>]

\* no handler has read a kernel file
NothingRead == kernel = [t \in Tasks |-> NoKernel]

Init == InitTasks(Menu) /\ NothingRead /\ ToolsByMode

TaskNext ==
    \/ \E t \in Tasks : \E c \in menu[t] : Receive(t, c)
    \/ \E t \in Tasks : ListingDone(t)
    \/ \E t \in Tasks : \E i \in 1..Len(units[t]) : UnitWrite(t, i)
    \/ \E t \in Tasks : \E i \in 1..Len(units[t]) : UnitDone(t, i)
    \/ \E t \in Tasks : Await(t)
    \/ \E t \in Tasks : DumpCmdFinish(t)
    \/ \E t \in Tasks : PatchUnpack(t)
    \/ \E t \in Tasks : ChildOpen(t)
    \/ \E t \in Tasks : ChildWrite(t)
    \/ \E t \in Tasks : UnpackReturn(t)
    \/ \E t \in Tasks : PatchGetKmi(t)
    \/ \E t \in Tasks : PatchRun(t)
    \/ \E t \in Tasks : PatchReturn(t)
    \/ \E t \in Tasks : PatchCmdReply(t)
    \/ \E t \in Tasks : RemoveDirAllOpen(t)
    \/ \E t \in Tasks : \E f \in entries[t] : RemoveDirAllUnlink(t, f)
    \/ \E t \in Tasks : RemoveDirAllRmdir(t)
    \/ Tick

Next == TaskNext

Spec == Init /\ [][Next]_vars

\* one handler alone, given any command of DumpMenu or AllPatchMenu
InitOne ==
    /\ InitTasks([t \in Tasks |-> IF t = "t1" THEN DumpMenu \cup AllPatchMenu ELSE {}])
    /\ NothingRead
    /\ ToolsPresent

SpecOne == InitOne /\ [][Next]_vars

\* one handler alone, with threads that all end and a runtime that polls the
\* handler's task whenever the receiver it awaits is ready: no thread and no
\* task is starved, nothing else is assumed
WorkersEnd ==
    \A t \in Tasks :
        /\ WF_vars(ListingDone(t))
        /\ \A i \in 1..Len(RemoteListing) : WF_vars(UnitDone(t, i))

TaskPolled == \A t \in Tasks : WF_vars(Await(t))

InitLive ==
    /\ InitTasks([t \in Tasks |-> IF t = "t1" THEN DumpMenu \cup AllPatchMenu ELSE {}])
    /\ NothingRead
    /\ ToolsByMode

SpecLive == InitLive /\ [][Next]_vars /\ WorkersEnd /\ TaskPolled

\* the tools before main has acquired them
InitTools ==
    /\ InitTasks([t \in Tasks |-> {}])
    /\ NothingRead
    /\ basis \in Platforms
    /\ toolFile = [k \in Tools |-> "absent"]
    /\ binDir \in BOOLEAN
    /\ calls = [k \in Tools |-> << >>]

NextTools == ManagerInit

SpecTools == InitTools /\ [][NextTools]_vars

\* get_kmi on its own, from reader.read_to_end(&mut buffer) on: the scan of the
\* bytes read and the final match
GetKmi(t) ==
    /\ kernel[t] # NoKernel
    /\ meta[t] = NoMeta
    /\ meta' = [meta EXCEPT ![t] = get_kmi(kernel[t])]
    /\ UNCHANGED <<now, dirs, files, menu, pc, cmd, partitions, temp_dir, listed, infos, units, rxi,
                   ret, finished, kernel, procs, pret, reply, entries, child, toolVars>>

\* a kernel file of at most MaxCands strings has been read
InitKmi ==
    /\ InitTasks([t \in Tasks |-> {}])
    /\ \E k \in ImagesOf(MaxCands) : kernel = [t \in Tasks |-> IF t = "t1" THEN k ELSE NoKernel]
    /\ ToolsPresent

NextKmi == \E t \in Tasks : GetKmi(t)

SpecKmi == InitKmi /\ [][NextKmi]_vars

(***************************************************************************)
(* Properties.                                                             *)
(***************************************************************************)
\* the names a task's dump was asked for, before sort and dedup
Requested(t) ==
    IF cmd[t].kind = "dump" THEN Range(Split(cmd[t].arg)) ELSE Range(Images(cmd[t].partition))

Listed(name) == \E i \in 1..Len(RemoteListing) : RemoteListing[i].name = name

Names(fs) == [i \in 1..Len(fs) |-> fs[i].name]

AllOk(t) == \A i \in 1..Len(units[t]) : units[t][i].state = "ok"

\* C1, as stated: two Tool::init calls in a row, the first finding no file at
\* the local path, make exactly one get_latest call between them.
C1_TwoCallsOneFetch ==
    \A k \in Tools : \A i \in 1..(Len(calls[k]) - 1) :
        ~calls[k][i].existed =>
            (calls[k][i].fetched /\ ~calls[k][i + 1].fetched)

\* C1, amended: a Tool::init call that finds the file makes no request, writes
\* nothing and succeeds; one that finds none calls get_latest, and a success
\* leaves the file in place.  Of two calls in a row, the first finding no
\* file, the second fetches again exactly when the first left no file behind:
\* exactly one get_latest is made when the first call left the file in place.
C1_EnsurePresent ==
    \A k \in Tools : \A i \in 1..Len(calls[k]) :
        LET c == calls[k][i]
        IN  /\ c.existed => (~c.fetched /\ c.result = "ok" /\ c.requests = 0 /\ c.writes = 0)
            /\ ~c.existed => (c.fetched /\ c.requests >= 1)
            /\ c.result = "ok" => c.left
            /\ (i < Len(calls[k]) /\ ~c.existed) => (calls[k][i + 1].fetched <=> ~c.left)

\* C1 witness: a tool was fetched by a first call and found by the second.
C1_Witness ==
    \E k \in Tools :
        /\ Len(calls[k]) >= 2
        /\ ~calls[k][1].existed /\ calls[k][1].result = "ok"
        /\ calls[k][2].existed /\ ~calls[k][2].fetched

\* C2: a dump that has returned returned Ok exactly if its listing succeeded
\* and every extraction unit it launched delivered Ok; otherwise it returned
\* an error and no partition list, and after a successful listing that error
\* is the one of a unit that delivered an error or ended without sending.
C2_DumpAllOrNothing ==
    \A t \in Tasks :
        ret[t].state # "none" =>
            /\ ret[t].state = "ok" <=> (listed[t] = <<"ok">> /\ AllOk(t))
            /\ ret[t].state = "ok" => Len(ret[t].partitions) = Len(units[t])
            /\ ret[t].state = "err" => ret[t].partitions = << >>
            /\ (ret[t].state = "err" /\ listed[t] = <<"ok">>) =>
                   /\ ret[t].unit \in 1..Len(units[t])
                   /\ units[t][ret[t].unit].state \in {"err", "gone"}
                   /\ ret[t].err = IF units[t][ret[t].unit].state = "err" THEN "extract" ELSE "recv"

\* C2 witness: a dump failed on its second unit after its first had delivered Ok.
C2_Witness ==
    \E t \in Tasks :
        /\ ret[t].state = "err" /\ ret[t].unit = 2
        /\ units[t][1].state = "ok" /\ units[t][2].state = "gone"

\* C3: the partitions of a successful dump are the requested names the listing
\* has, each once, in ascending order: a sequence fixed by the request and the
\* listing, whatever the order in which the units ended.
C3_OrderIndependent ==
    \A t \in Tasks :
        ret[t].state = "ok" =>
            /\ Range(Names(ret[t].partitions)) = {n \in Requested(t) : Listed(n)}
            /\ \A i \in 1..Len(ret[t].partitions) : \A j \in 1..Len(ret[t].partitions) :
                   i < j => StrLess(ret[t].partitions[i].name, ret[t].partitions[j].name)

\* C3 witness: three partitions returned, the second unit having ended first.
C3_Witness ==
    \E t \in Tasks :
        /\ ret[t].state = "ok" /\ Len(ret[t].partitions) = 3
        /\ finished[t][1] = 2

\* C4: after a successful listing the units launched are those of the
\* requested names the listing has; a successful dump returns exactly these
\* names, each with the size and hash of its listing entry (0 for an entry
\* that gives no size, none for one that gives no hash), and a requested
\* name the listing lacks is no error.
C4_ListedNamesOnly ==
    \A t \in Tasks :
        listed[t] = <<"ok">> =>
            /\ {units[t][i].name : i \in 1..Len(units[t])} = {n \in Requested(t) : Listed(n)}
            /\ (AllOk(t) /\ ret[t].state # "none") => ret[t].state = "ok"
            /\ ret[t].state = "ok" =>
                   /\ Range(Names(ret[t].partitions)) = {n \in Requested(t) : Listed(n)}
                   /\ \A i \in 1..Len(ret[t].partitions) :
                          \E j \in 1..Len(RemoteListing) :
                              /\ RemoteListing[j].name = ret[t].partitions[i].name
                              /\ ret[t].partitions[i].size =
                                     (IF RemoteListing[j].size_bytes >= 0
                                      THEN RemoteListing[j].size_bytes ELSE 0)
                              /\ ret[t].partitions[i].hash =
                                     (IF RemoteListing[j].hash = "null" THEN << >>
                                      ELSE <<RemoteListing[j].hash>>)

\* C4 witness: a dump asked for a name the listing lacks and returned the others.
C4_Witness ==
    \E t \in Tasks :
        /\ "system" \in Requested(t)
        /\ ret[t].state = "ok" /\ Len(ret[t].partitions) = 3

\* the request of task t names some partition more than once
Repeats(t) == Len(Split(cmd[t].arg)) > Cardinality(Requested(t))

\* C5, as stated: a dump whose request repeats a name makes one listing call,
\* launches at most one unit per name and returns no name twice.
C5_OneListingNoDuplicates ==
    \A t \in Tasks :
        (Repeats(t) /\ ret[t].state # "none") =>
            /\ Len(listed[t]) = 1
            /\ \A i \in 1..Len(units[t]) : \A j \in 1..Len(units[t]) :
                   units[t][i].name = units[t][j].name => i = j
            /\ \A i \in 1..Len(ret[t].partitions) : \A j \in 1..Len(ret[t].partitions) :
                   ret[t].partitions[i].name = ret[t].partitions[j].name => i = j

\* C5, amended: a dump, whether or not its request repeats a name, never makes
\* a second listing call, launches at most one unit per name and returns no
\* name twice; when it returns it has made one listing call, or none at all
\* if it returns the error of create_dir_all.
C5_NoDuplicates ==
    \A t \in Tasks :
        /\ Len(listed[t]) <= 1
        /\ ret[t].state # "none" => Len(listed[t]) = (IF ret[t].err = "mkdir" THEN 0 ELSE 1)
        /\ \A i \in 1..Len(units[t]) : \A j \in 1..Len(units[t]) :
               units[t][i].name = units[t][j].name => i = j
        /\ \A i \in 1..Len(ret[t].partitions) : \A j \in 1..Len(ret[t].partitions) :
               ret[t].partitions[i].name = ret[t].partitions[j].name => i = j

\* C5 witness: a request naming vbmeta twice returned vbmeta and boot once each.
C5_Witness ==
    \E t \in Tasks :
        /\ Repeats(t) /\ Len(listed[t]) = 1
        /\ ret[t].state = "ok" /\ Len(ret[t].partitions) = 2

\* a /patch command whose two tokens patch_boot accepts
ValidPatch(t) ==
    /\ cmd[t].kind = "patch"
    /\ PatchMethodFrom(cmd[t].method) # "Err"
    /\ PatchPartitionFrom(cmd[t].partition) # "Err"

\* the dump of task t has created its directory
Created(t) == temp_dir[t] # NoDir /\ ret[t].err # "mkdir"

\* C6, as stated: patch_boot with a Magisk method token and a valid partition
\* token fails with the not-implemented error, whether the listing and the
\* extraction of the archive at the URL succeed or fail.
C6_MagiskNotImplemented ==
    \A t \in Tasks :
        (ValidPatch(t) /\ PatchMethodFrom(cmd[t].method) = "Magisk" /\ Created(t)
           /\ pret[t].state # "none") =>
            (pret[t].state = "err" /\ pret[t].err = "not_implemented")

\* C7, as stated: the dump patch_boot requests names the target's canonical
\* partition name and boot, each once, so the image named by the patcher's -b
\* argument is one the dump was asked for.
C7_PatchDumpsCanonical ==
    \A t \in Tasks :
        (ValidPatch(t) /\ Created(t)) =>
            LET name == get_partition_name(PatchPartitionFrom(cmd[t].partition))
            IN  /\ Range(partitions[t]) = {name, "boot"}
                /\ Len(partitions[t]) = Cardinality({name, "boot"})
                /\ \E i \in 1..Len(partitions[t]) :
                       <<partitions[t][i], ".img">> = PatcherImage(PatchPartitionFrom(cmd[t].partition))

\* C8, as stated: no two dumps use the same temp directory.
C8_TempDirsDistinct ==
    \A t1 \in Tasks : \A t2 \in Tasks :
        (t1 # t2 /\ Created(t1) /\ Created(t2)) => temp_dir[t1] # temp_dir[t2]

\* C9, as stated: at the step in which a dump returns Ok, the file of every
\* returned partition exists under the returned directory.
C9_FilesExistAtReturn ==
    [][\A t \in Tasks :
          (ret[t].state = "none" /\ ret'[t].state = "ok") =>
              /\ ret'[t].dir \in dirs'
              /\ \A i \in 1..Len(ret'[t].partitions) :
                     /\ ret'[t].partitions[i].path = ImgPath(ret'[t].dir, ret'[t].partitions[i].name)
                     /\ ret'[t].partitions[i].path \in files']_vars

\* a step of dump_partition or of one of its threads
DumpStep(t) ==
    \/ \E c \in menu[t] : Receive(t, c)
    \/ ListingDone(t)
    \/ \E i \in 1..Len(units[t]) : UnitWrite(t, i)
    \/ \E i \in 1..Len(units[t]) : UnitDone(t, i)
    \/ Await(t)

\* C10: no step of a dump, on a path to success or to any failure, removes a
\* directory or a file that was there before it, and no two units of a dump
\* write the same file.
C10_DumpDeletesNothing ==
    [][\A t \in Tasks :
          DumpStep(t) =>
              /\ dirs \subseteq dirs'
              /\ files \subseteq files'
              /\ \A i \in 1..Len(infos[t]) : \A j \in 1..Len(infos[t]) :
                     infos[t][i].path = infos[t][j].path => i = j]_vars

\* C10 witness: a dump has failed on its second unit and the directory it
\* made and the image its first unit wrote are still there.
C10_Witness ==
    \E t \in Tasks :
        /\ ret[t].state = "err" /\ ret[t].unit = 2
        /\ temp_dir[t] \in dirs
        /\ infos[t][1].path \in files

\* a /dump command that names no partition: every segment of its argument is
\* the empty string
EmptyRequest(c) == c.kind = "dump" /\ Range(Split(c.arg)) \subseteq {""}

\* C11, as stated: a dump asked for no partition name, whose directory could
\* be made and whose listing succeeded, returns Ok with no partition and with
\* a directory that this call created and that holds no file, having launched
\* no extraction unit.
C11_EmptyDumpFreshDir ==
    [][\A t \in Tasks :
          EmptyRequest(cmd'[t]) =>
              /\ (pc[t] = "idle" /\ pc'[t] = "listing") => temp_dir'[t] \notin dirs
              /\ (ret[t].state = "none" /\ ret'[t].state # "none" /\ listed'[t] = <<"ok">>) =>
                     /\ ret'[t].state = "ok"
                     /\ ret'[t].partitions = << >>
                     /\ units'[t] = << >>
                     /\ ret'[t].dir = temp_dir[t]
                     /\ ret'[t].dir \in dirs'
                     /\ \A f \in files' : f[1] # ret'[t].dir]_vars

\* C11, the part that holds: such a dump returns Ok with no partition and the
\* directory named after the second it started in, launches no extraction
\* unit and writes no file.
C11_EmptyDumpOk ==
    [][\A t \in Tasks :
          EmptyRequest(cmd'[t]) =>
              /\ infos'[t] = << >> /\ units'[t] = << >>
              /\ DumpStep(t) => files' = files
              /\ (ret[t].state = "none" /\ ret'[t].state # "none" /\ listed'[t] = <<"ok">>) =>
                     /\ ret'[t].state = "ok"
                     /\ ret'[t].partitions = << >>
                     /\ ret'[t].dir = temp_dir[t]]_vars

\* C11 witness: a dump asked for no name has returned Ok from a directory that
\* another dump made in the same second.
C11_Witness ==
    \E t \in Tasks : \E u \in Tasks :
        /\ t # u
        /\ EmptyRequest(cmd[t]) /\ ret[t].state = "ok"
        /\ Created(u) /\ temp_dir[u] = temp_dir[t]

\* the name of an asset satisfies the predicate of the tool: it is the computed
\* name ksud-<arch>-<target> for ksud, it has the prefix Magisk-v for magiskboot
Satisfies(k, asset) ==
    /\ asset.str
    /\ IF k = "ksud"
       THEN asset.name = <<"ksud", "-", basis.arch, "-",
                           IF basis.os = "linux" THEN "unknown-linux-musl" ELSE "linux-android">>
       ELSE asset.name # << >> /\ asset.name[1] = "Magisk-v"

\* a get_latest call that was answered with a release none of whose assets
\* satisfies the predicate of the tool
NoAssetMatches(k, c) ==
    /\ c.fetched /\ c.env.release.ok
    /\ \A j \in 1..Len(c.env.release.assets) : ~Satisfies(k, c.env.release.assets[j])

\* every asset of the release the call was answered with has a string for name
AllNamed(c) == \A j \in 1..Len(c.env.release.assets) : c.env.release.assets[j].str

\* C12, as stated: for either tool, a get_latest call whose release lists no
\* asset satisfying the predicate fails with the asset-not-found error after
\* the one request for the release: it downloads nothing, writes no file and
\* creates no directory.
C12_AssetNotFound ==
    \A k \in Tools : \A i \in 1..Len(calls[k]) :
        LET c == calls[k][i]
        IN  NoAssetMatches(k, c) =>
                /\ c.result = "asset_not_found"
                /\ c.requests = 1
                /\ c.writes = 0
                /\ ~c.left
                /\ ~c.mkdir

\* C12, the part that holds: such a call makes the one request for the
\* release, downloads nothing, writes no file and creates no directory; it
\* returns the asset-not-found error, except that magiskboot's panics when the
\* release lists an asset whose name is not a string.
C12_AssetNotFoundOrPanic ==
    \A k \in Tools : \A i \in 1..Len(calls[k]) :
        LET c == calls[k][i]
        IN  NoAssetMatches(k, c) =>
                /\ c.result = IF k = "magiskboot" /\ ~AllNamed(c) THEN "panic" ELSE "asset_not_found"
                /\ c.requests = 1
                /\ c.writes = 0
                /\ ~c.left
                /\ ~c.mkdir

\* each tool has been answered with a release that lists assets, none of which
\* satisfies its predicate, one of them without a string for name
C12_Witness ==
    \A k \in Tools : \E i \in 1..Len(calls[k]) :
        /\ NoAssetMatches(k, calls[k][i])
        /\ ~AllNamed(calls[k][i])

\* a magiskboot get_latest call that downloaded a zip archive with no entry
\* named as the member selected by the architecture
NoMemberMatches(c) ==
    /\ c.fetched /\ c.result # "asset_not_found" /\ c.env.release.ok
    /\ c.env.download.kind = "zip"
    /\ \A j \in 1..Len(c.env.download.members) :
           c.env.download.members[j] #
               <<"lib/", IF basis.arch = "x86_64" THEN "x86_64" ELSE "arm64-v8a", "/libmagiskboot.so">>

\* C13, as stated: a magiskboot get_latest call whose archive lacks the member
\* fails with the archive-member-not-found error, and no call returns Ok
\* without having written the local path.
C13_MemberNotFound ==
    \A i \in 1..Len(calls["magiskboot"]) :
        LET c == calls["magiskboot"][i]
        IN  /\ NoMemberMatches(c) => c.result = "member_not_found"
            /\ (c.fetched /\ c.result = "ok") => (c.writes = 1 /\ c.left)

\* C13, the part that holds: such a call fails, with the I/O error of
\* set_permissions on the file that was never written, and leaves no file; no
\* call returns Ok without having written the local path.
C13_MemberMissingIoError ==
    \A i \in 1..Len(calls["magiskboot"]) :
        LET c == calls["magiskboot"][i]
        IN  /\ NoMemberMatches(c) => (c.result = "io" /\ c.writes = 0 /\ ~c.left)
            /\ (c.fetched /\ c.result = "ok") => (c.writes = 1 /\ c.left)

\* C13 witness: magiskboot was fetched from an archive that lacks the member.
C13_Witness ==
    \E i \in 1..Len(calls["magiskboot"]) :
        /\ NoMemberMatches(calls["magiskboot"][i])
        /\ calls["magiskboot"][i].env.download.members # << >>

\* slice i of the kernel file read by task t is UTF-8 text in which kmi_re
\* finds a kmi, the slice being printable / kernel_version_re finds a version
YieldsKmi(c) == c.utf8 /\ c.printable /\ c.kmi # << >>
YieldsKernelVersion(c) == c.utf8 /\ c.kv # << >>

\* C14: get_kmi returns Ok exactly if some slice yields a kmi and some slice
\* yields a kernel version, and then neither value is empty; otherwise it
\* fails with the error that tells which of the two is missing: the kernel
\* version, the kmi, or both.
C14_KmiScanOutcome ==
    \A t \in Tasks :
        meta[t] # NoMeta =>
            LET cs   == Candidates(kernel[t])
                hasK == \E i \in 1..Len(cs) : YieldsKmi(cs[i])
                hasV == \E i \in 1..Len(cs) : YieldsKernelVersion(cs[i])
            IN  /\ meta[t].ok <=> (hasK /\ hasV)
                /\ meta[t].ok => (meta[t].kmi # << >> /\ meta[t].kernel_version # << >>)
                /\ (hasK /\ ~hasV) => meta[t].err = "no_kernel_version"
                /\ (~hasK /\ hasV) => meta[t].err = "no_kmi"
                /\ (~hasK /\ ~hasV) => meta[t].err = "no_kmi_no_kernel_version"
                /\ ~meta[t].ok => (meta[t].kmi = << >> /\ meta[t].kernel_version = << >>)

\* C14 witness: a scan succeeded with the kernel version found in a slice
\* that comes before the one with the kmi.
C14_Witness ==
    \E t \in Tasks :
        /\ meta[t].ok
        /\ LET cs == Candidates(kernel[t])
           IN  \E i \in 1..Len(cs) : \E j \in 1..Len(cs) :
                   /\ i < j
                   /\ YieldsKernelVersion(cs[i]) /\ ~YieldsKmi(cs[i])
                   /\ YieldsKmi(cs[j])

\* the kernel file read by task t holds both strings of the example: the first
\* slice that yields a kmi is 5.10.101-android13-8-00674-g1 and the first that
\* yields a kernel version is Linux version 5.10.101-something
HoldsExample(t) ==
    LET slices == SplitNul(kernel[t])
        cs     == Candidates(kernel[t])
        ks     == {i \in 1..Len(cs) : YieldsKmi(cs[i])}
        vs     == {i \in 1..Len(cs) : YieldsKernelVersion(cs[i])}
    IN  /\ kernel[t] # NoKernel
        /\ ks # {} /\ slices[Min(ks)] = KmiString
        /\ vs # {} /\ slices[Min(vs)] = BannerString

\* C15, as stated: the scan of such a file yields the kmi android13-5.10.101
\* and the kernel version 5.10.101-something.
C15_KmiFullVersion ==
    \A t \in Tasks :
        (HoldsExample(t) /\ meta[t] # NoMeta) =>
            /\ meta[t].ok
            /\ meta[t].kmi = Android \o <<"1", "3", "-", "5", ".", "1", "0", ".", "1", "0", "1">>
            /\ meta[t].kernel_version = SubSeq(BannerString, Len(LinuxVersion) + 1, Len(BannerString))

\* C15, amended: the scan of such a file yields the kmi android13-5.10, the
\* android tag followed by the first two components of the version, and the
\* kernel version 5.10.101-something.
C15_KmiTwoComponents ==
    \A t \in Tasks :
        (HoldsExample(t) /\ meta[t] # NoMeta) =>
            /\ meta[t].ok
            /\ meta[t].kmi = Android \o <<"1", "3", "-", "5", ".", "1", "0">>
            /\ meta[t].kernel_version = SubSeq(BannerString, Len(LinuxVersion) + 1, Len(BannerString))

\* C15 witness: the file made of the two strings, each ended by NUL, was scanned.
C15_Witness ==
    \E t \in Tasks :
        /\ kernel[t] = KmiString \o <<NUL>> \o BannerString \o <<NUL>>
        /\ meta[t].ok

\* C16: whenever patch_boot has returned Ok, the path it returned is
\* <temp_dir>/<method>_patched_<partition name>-<kmi>.img, with the directory
\* of the dump this call made, the canonical names of the method and of the
\* partition and the kmi it returned; and the directory patch_cmd then removes
\* is that dump's directory and no other.
C16_PatchedPathInTempDir ==
    [][\A t \in Tasks :
          /\ pret'[t].state = "ok" =>
                 /\ ret'[t].state = "ok" /\ ret'[t].dir = temp_dir'[t]
                 /\ pret'[t].kmi = meta'[t].kmi /\ pret'[t].kmi # << >>
                 /\ pret'[t].path[1] = temp_dir'[t]
                 /\ pret'[t].path[2] =
                        <<PatchMethodToString(PatchMethodFrom(cmd'[t].method)), "_patched_",
                          get_partition_name(PatchPartitionFrom(cmd'[t].partition)), "-">>
                        \o pret'[t].kmi \o <<".img">>
          /\ (cmd[t].kind = "patch" /\ pc[t] \in {"cleanup", "unlinking"} /\ pc'[t] # "cleanup") =>
                 /\ CleanupDir(t) = temp_dir[t]
                 /\ entries'[t] \subseteq Entries(files, temp_dir[t]) \cup entries[t]
                 /\ (entries'[t] # entries[t] \/ pc'[t] = "done") =>
                        /\ dirs \ dirs' \subseteq {temp_dir[t]}
                        /\ \A f \in files \ files' : f[1] = temp_dir[t]]_vars

\* C16 witness: of two /patch handlers whose dumps share a directory, the one
\* given boot and ksu returned Ok with a path under that directory, uploaded
\* the file found there and removed the directory.
C16_Witness ==
    \E t \in Tasks, u \in Tasks :
        /\ t # u /\ cmd[u].kind = "patch" /\ pret[u].state = "ok" /\ temp_dir[u] = temp_dir[t]
        /\ cmd[t].partition = "boot" /\ cmd[t].method = "ksu"
        /\ pret[t].state = "ok" /\ pret[t].path[1] = temp_dir[t]
        /\ pc[t] = "done" /\ reply[t] = "uploaded"
        /\ temp_dir[t] \notin dirs

\* C17: a patch with accepted tokens and the KernelSU method whose dump
\* succeeded returns Ok exactly if the unpack helper was launched, the kernel
\* file could be read and yielded both values, and the patcher was launched:
\* the exit status of either subprocess and the existence of the output file
\* play no part, and the launch errors are returned only for a launch that
\* failed.  patch_cmd uploads the file only if it exists when the handler
\* looks for it, and reports it as not found otherwise.
C17_ExitStatusIgnored ==
    [][\A t \in Tasks :
          /\ (pret'[t].state # "none" /\ ret'[t].state = "ok"
                /\ PatchMethodFrom(cmd'[t].method) = "KernelSU") =>
                 LET ps == procs'[t]
                 IN  /\ Len(ps) \in {1, 2}
                     /\ ps[1].prog = "magiskboot"
                     /\ Len(ps) = 2 => (ps[2].prog = "ksud" /\ ps[1].launched /\ meta'[t].ok)
                     /\ pret'[t].state = "ok" <=> (Len(ps) = 2 /\ ps[2].launched)
                     /\ (ps[1].launched /\ kernel'[t] # NoKernel /\ KernelScans[kernel'[t]].ok) =>
                            Len(ps) = 2
                     /\ pret'[t].err = "unpack_launch" <=> ~ps[1].launched
                     /\ pret'[t].err = "patch_launch" <=> (Len(ps) = 2 /\ ~ps[2].launched)
          /\ (pc[t] = "patched" /\ pc'[t] # "patched") =>
                 /\ reply'[t] \in {"uploaded", "upload_failed"} =>
                        (pret[t].state = "ok" /\ pret[t].path \in files)
                 /\ reply'[t] = "not_found" => (pret[t].state = "ok" /\ pret[t].path \notin files)
                 /\ reply'[t] = "failed" <=> pret[t].state = "err"]_vars

\* C17 witness: a patch returned Ok although both subprocesses ended with a
\* failing status and no output file was written, and the handler reported
\* the file as not found.
C17_Witness ==
    \E t \in Tasks :
        /\ pret[t].state = "ok"
        /\ Len(procs[t]) = 2
        /\ procs[t][1].exit = "nonzero" /\ procs[t][2].exit = "nonzero"
        /\ reply[t] = "not_found"

\* C18: patch_boot with a method token outside the enum fails with the
\* invalid-method error, also when the partition token is outside its enum
\* too; with an accepted method and a partition token outside the enum it fails
\* with the invalid-partition error.  Either way no directory is created, no
\* listing or extraction is started and no subprocess is launched.
C18_InvalidTokensNoEffect ==
    \A t \in Tasks :
        (cmd[t].kind = "patch" /\ ~ValidPatch(t)) =>
            /\ temp_dir[t] = NoDir /\ partitions[t] = << >>
            /\ dirs = {} /\ files = {}
            /\ listed[t] = << >> /\ units[t] = << >> /\ finished[t] = << >>
            /\ ret[t] = NoRet
            /\ procs[t] = << >> /\ child[t] = "none" /\ kernel[t] = NoKernel
            /\ pret[t].state # "ok"
            /\ pret[t].state = "err" =>
                   pret[t].err = IF PatchMethodFrom(cmd[t].method) = "Err"
                                 THEN "invalid_method" ELSE "invalid_partition"

\* C18 witness: a patch with both tokens outside the enums has returned the
\* invalid-method error, and the handler has reported it.
C18_Witness ==
    \E t \in Tasks :
        /\ cmd[t].kind = "patch"
        /\ PatchMethodFrom(cmd[t].method) = "Err" /\ PatchPartitionFrom(cmd[t].partition) = "Err"
        /\ pret[t] = PretErr("invalid_method")
        /\ reply[t] = "failed"

RECURSIVE FirstOccurrences(_)
\* the elements of s in order, each at its first place only
FirstOccurrences(s) ==
    IF s = << >> THEN << >>
    ELSE LET init == FirstOccurrences(SubSeq(s, 1, Len(s) - 1))
         IN  IF s[Len(s)] \in Range(init) THEN init ELSE Append(init, s[Len(s)])

\* the names the listing has, in the order in which task t's dump was asked
\* for them
RequestOrder(t) ==
    SelectSeq(FirstOccurrences(IF cmd[t].kind = "dump" THEN Split(cmd[t].arg)
                               ELSE Images(cmd[t].partition)),
              Listed)

Ascending(names) ==
    \A i \in 1..Len(names) : \A j \in 1..Len(names) : i < j => StrLess(names[i], names[j])

\* the names of the units of task t, in spawn order
UnitNames(t) == [i \in 1..Len(units[t]) |-> units[t][i].name]

\* C19, as stated: the units of a dump are awaited, and the partitions of a
\* successful dump are ordered, in the order in which the names were
\* requested, whatever that order is.
C19_RequestOrder ==
    \A t \in Tasks :
        listed[t] = <<"ok">> =>
            /\ UnitNames(t) = RequestOrder(t)
            /\ ret[t].state = "ok" => Names(ret[t].partitions) = RequestOrder(t)

\* C19, amended: the units of a dump are spawned and awaited, and the
\* partitions of a successful dump are ordered, in ascending order of the
\* names (the order after sort and dedup): the receiver awaited is that of the
\* first unit in this order that has not yet yielded Ok.  This is the order of
\* the request exactly when the request names the partitions in ascending
\* order.
C19_AscendingOrder ==
    \A t \in Tasks :
        listed[t] = <<"ok">> =>
            /\ Range(UnitNames(t)) = Range(RequestOrder(t))
            /\ Ascending(UnitNames(t))
            /\ pc[t] = "await" =>
                   /\ rxi[t] \in 1..Len(units[t])
                   /\ \A j \in 1..(rxi[t] - 1) : units[t][j].state = "ok"
            /\ ret[t].state = "err" => \A j \in 1..(ret[t].unit - 1) : units[t][j].state = "ok"
            /\ ret[t].state = "ok" => Names(ret[t].partitions) = UnitNames(t)
            /\ UnitNames(t) = RequestOrder(t) <=> Ascending(RequestOrder(t))

\* C19 witness: a dump asked for vendor_boot, system, init_boot and boot, in
\* this order, returned boot, init_boot and vendor_boot.
C19_Witness ==
    \E t \in Tasks :
        /\ ret[t].state = "ok"
        /\ RequestOrder(t) = <<"vendor_boot", "init_boot", "boot">>
        /\ Names(ret[t].partitions) = <<"boot", "init_boot", "vendor_boot">>

\* unit j of task t has delivered an error or ended without delivering
Failed(us, j) == us[j].state \in {"err", "gone"}

\* C20: at the step in which a dump whose listing succeeded returns, every
\* unit spawned before the one whose failure it returns has delivered Ok, and
\* on success every unit has; the error returned is that of the failing unit
\* spawned first, also when a unit spawned later failed before it in time; and
\* while the unit awaited is still running the dump does not return, whatever
\* the later units have delivered.
C20_SpawnOrderCollection ==
    [][\A t \in Tasks :
          /\ (ret[t].state = "none" /\ ret'[t].state = "err" /\ listed'[t] = <<"ok">>) =>
                 LET i == ret'[t].unit
                 IN  /\ i \in 1..Len(units[t])
                     /\ \A j \in 1..(i - 1) : units[t][j].state = "ok"
                     /\ Failed(units[t], i)
                     /\ i = Min({j \in 1..Len(units[t]) : Failed(units[t], j)})
                     /\ ret'[t].err = RecvOutcome(units[t][i].state)
          /\ (ret[t].state = "none" /\ ret'[t].state = "ok") =>
                 \A j \in 1..Len(units[t]) : units[t][j].state = "ok"
          /\ (pc[t] = "await" /\ Running(units[t][rxi[t]].state)) =>
                 (ret'[t].state = "none" /\ rxi'[t] = rxi[t])]_vars

\* C20 witness: the second unit failed while the first was still running, the
\* first then failed in another way, and the dump returned the first's error.
C20_Witness ==
    \E t \in Tasks :
        /\ Len(finished[t]) >= 2 /\ finished[t][1] = 2 /\ finished[t][2] = 1
        /\ units[t][2].state = "gone" /\ units[t][1].state = "err"
        /\ ret[t].state = "err" /\ ret[t].unit = 1 /\ ret[t].err = "extract"

\* the receivers the for loop of dump_partition has taken out of the vector
\* and awaited to completion: those before the one being awaited, and that
\* one too once the loop has ended
Collected(t) == IF pc[t] = "await" THEN 1..(rxi[t] - 1) ELSE 1..rxi[t]

\* dump_partition has returned to its caller
Returned(t) == ret[t].state # "none"

\* C21, as stated: once dump has returned, with Ok or with Err, the channel of
\* every unit it launched has been awaited, and no unit is still running (and
\* so none can write into the directory any more).
C21_AllCollectedAtReturn ==
    \A t \in Tasks :
        Returned(t) =>
            \A i \in 1..Len(units[t]) :
                i \in Collected(t) /\ ~Running(units[t][i].state)

\* what does hold of C21: a receiver that was awaited to completion belongs to
\* a unit that has ended, a dump that returns Ok has collected every unit, and
\* one that returns the error of unit i has collected the units up to i only.
C21_CollectedUpToFailure ==
    \A t \in Tasks :
        /\ \A i \in Collected(t) : i \in 1..Len(units[t]) /\ ~Running(units[t][i].state)
        /\ ret[t].state = "ok" => Collected(t) = 1..Len(units[t])
        /\ (ret[t].state = "err" /\ ret[t].unit > 0) => Collected(t) = 1..ret[t].unit

\* C21 witness: dump returned the error of its first unit while a later unit,
\* whose receiver was dropped without being awaited, is running and the
\* directory it writes into exists.
C21_Witness ==
    \E t \in Tasks :
        /\ ret[t].state = "err" /\ ret[t].unit = 1
        /\ Len(units[t]) > 1 /\ units[t][2].state = "running"
        /\ temp_dir[t] \in dirs

\* C22, as stated: every dump that has returned made exactly one listing
\* call; a listing that failed made the dump fail with the listing's error and
\* left it without any extraction unit.
C22_OneListingPerDump ==
    \A t \in Tasks :
        /\ Returned(t) => Len(listed[t]) = 1
        /\ (listed[t] # << >> /\ listed[t][1] # "ok") =>
               /\ ret[t].state = "err" /\ ret[t].err \in {"list", "recv"} /\ ret[t].unit = 0
               /\ units[t] = << >>

\* C22, amended: a dump makes at most one listing call, after it has created
\* its directory and before it launches any unit; a dump whose create_dir_all
\* failed returns that error without a listing call, every other dump that
\* returns has made exactly one; units are launched only after a listing that
\* succeeded, and a listing that failed makes the dump fail with the listing's
\* error and leaves it without any unit.
C22_OneListingAfterMkdir ==
    [][\A t \in Tasks :
          /\ Len(listed'[t]) <= 1
          /\ listed'[t] # listed[t] =>
                 /\ pc[t] = "listing" /\ Created(t) /\ units[t] = << >>
                 /\ ret[t].state = "none"
          /\ units'[t] # << >> => listed'[t] = <<"ok">>
          /\ ret'[t].state # "none" =>
                 Len(listed'[t]) = (IF ret'[t].err = "mkdir" THEN 0 ELSE 1)
          /\ (listed'[t] # << >> /\ listed'[t][1] # "ok") =>
                 /\ ret'[t].state = "err" /\ ret'[t].err \in {"list", "recv"}
                 /\ ret'[t].unit = 0
                 /\ units'[t] = << >>]_vars

\* C22 witness: a dump whose one listing call failed has returned the listing's
\* error without a unit, in the directory it had created, and its handler ended.
C22_Witness ==
    \E t \in Tasks :
        /\ listed[t] = <<"err">> /\ ret[t].err = "list" /\ units[t] = << >>
        /\ temp_dir[t] \in dirs /\ pc[t] = "done"

\* a get_latest that failed after it had created the file at the local path
FailedAfterWrite(c) == c.fetched /\ c.result # "ok" /\ c.writes >= 1

\* C23: a get_latest that fails after the file was created (a write cut short,
\* or set_permissions failing after the write) leaves the file in place, and
\* every later Tool::init finds it and returns Ok without a request or a write;
\* the file is still there after all of them.
C23_NoCleanupOnFailure ==
    \A k \in Tools : \A i \in 1..Len(calls[k]) :
        FailedAfterWrite(calls[k][i]) =>
            /\ calls[k][i].left
            /\ calls[k][i].env.write = "partial" \/ ~calls[k][i].env.chmod
            /\ \A j \in (i + 1)..Len(calls[k]) :
                   /\ calls[k][j].existed /\ ~calls[k][j].fetched
                   /\ calls[k][j].result = "ok"
                   /\ calls[k][j].requests = 0 /\ calls[k][j].writes = 0
            /\ toolFile[k] \in {"partial", "written"}

\* C23 witness: a tool's first fetch failed after writing (the write cut short,
\* or set_permissions failing after a whole write) and the next call returned
\* Ok on the file it left.
C23_Witness ==
    \E k \in Tools, w \in {"partial", "ok"} :
        /\ Len(calls[k]) >= 2
        /\ FailedAfterWrite(calls[k][1]) /\ calls[k][1].env.write = w
        /\ calls[k][2].existed /\ calls[k][2].result = "ok"

\* the slices of a kernel file, in file order, that hold a kmi: entirely
\* printable ASCII or space, and matched by kmi_re
KmiSlices(buffer) ==
    LET slices == SplitNul(buffer)
    IN  {i \in 1..Len(slices) : IsPrintable(slices[i]) /\ KmiOf(slices[i]) # << >>}

\* the slices matched by Linux version <text> with a remainder that is not
\* blank, whatever bytes they hold besides
BannerSlices(buffer) ==
    LET slices == SplitNul(buffer)
    IN  {i \in 1..Len(slices) : KernelVersionOf(slices[i]) # << >>}

\* those of them that are UTF-8 text
TextBannerSlices(buffer) ==
    {i \in BannerSlices(buffer) : IsUtf8(SplitNul(buffer)[i])}

\* the number of UTF-8 slices among the first n, the ones the loop body can
\* run on
TextSlicesUpTo(buffer, n) ==
    Cardinality({i \in 1..n : IsUtf8(SplitNul(buffer)[i])})

\* what a scan of the file returns when the kmi is taken from the first slice
\* of ks, the kernel version from the first slice of vs, and the loop stops at
\* the later of the two
FirstOfEach(buffer, ks, vs, m) ==
    LET slices == SplitNul(buffer)
    IN  IF ks # {} /\ vs # {}
        THEN /\ m.ok
             /\ m.kmi = KmiOf(slices[Min(ks)])
             /\ m.kernel_version = KernelVersionOf(slices[Min(vs)])
             /\ m.examined = TextSlicesUpTo(buffer, Max({Min(ks), Min(vs)}))
        ELSE /\ ~m.ok
             /\ m.examined = TextSlicesUpTo(buffer, Len(slices))

\* C24, as stated: the kmi is that of the first printable slice that matches
\* the kmi pattern, the kernel version that of the first slice that matches
\* Linux version <text> with a remainder that is not blank, printable or not,
\* and the loop examines no slice after the one that completes the pair.
C24_FirstMatchAnySlice ==
    \A t \in Tasks :
        meta[t] # NoMeta =>
            FirstOfEach(kernel[t], KmiSlices(kernel[t]), BannerSlices(kernel[t]), meta[t])

\* C24, amended: the same with the kernel version taken from the first slice
\* that is valid UTF-8 and matches Linux version <text>; a slice that is not
\* valid UTF-8 is skipped for both values.
C24_FirstMatchTextSlice ==
    \A t \in Tasks :
        meta[t] # NoMeta =>
            FirstOfEach(kernel[t], KmiSlices(kernel[t]), TextBannerSlices(kernel[t]), meta[t])

\* C24 witness: a scan took the kernel version from a slice that is UTF-8 text
\* but not printable, and the kmi from a later slice.
C24_Witness ==
    \E t \in Tasks :
        /\ meta[t].ok
        /\ LET slices == SplitNul(kernel[t])
               ks     == KmiSlices(kernel[t])
               vs     == TextBannerSlices(kernel[t])
           IN  /\ ~IsPrintable(slices[Min(vs)])
               /\ Min(ks) > Min(vs)
               /\ meta[t].examined = TextSlicesUpTo(kernel[t], Min(ks))

\* C25, as stated: when a handler has finished, the directory its dump
\* created, if it created one, is gone.
C25_TempDirRemovedAtEnd ==
    \A t \in Tasks :
        (pc[t] = "done" /\ Created(t)) => temp_dir[t] \notin dirs

\* what does hold of C25: a handler removes at most the directory of its own
\* dump, as its last step, and only after the dump (and for /patch the
\* patch) returned Ok.
C25_RemovedAfterOkOnly ==
    [][\A t \in Tasks :
          (pc[t] # "done" /\ pc'[t] = "done" /\ dirs' # dirs) =>
              /\ dirs \ dirs' = {temp_dir[t]}
              /\ ret[t].state = "ok"
              /\ cmd[t].kind = "patch" => pret[t].state = "ok"]_vars

\* C25 witness: a /patch handler has finished after the Magisk method was
\* refused on a dump that had succeeded, and the dump's directory is still
\* there.
C25_Witness ==
    \E t \in Tasks :
        /\ pc[t] = "done" /\ Created(t) /\ temp_dir[t] \in dirs
        /\ cmd[t].kind = "patch" /\ ret[t].state = "ok"
        /\ pret[t].state = "err" /\ pret[t].err = "not_implemented"

\* a /dump command that names a partition the configured list lacks
NamesUnsupported(c) ==
    /\ c.kind = "dump"
    /\ \E n \in Range(Split(c.arg)) : n \notin Range(SupportedPartitions)

\* C26, as stated: with a non-empty list, a /dump command that names a
\* partition outside it never reaches dump_partition (no directory, no
\* listing, no unit) and is answered not supported; a command that names
\* supported partitions only is never answered so.
C26_UnsupportedRejected ==
    \A t \in Tasks :
        /\ (SupportedPartitions # << >> /\ NamesUnsupported(cmd[t])) =>
               /\ temp_dir[t] = NoDir /\ listed[t] = << >> /\ units[t] = << >>
               /\ ret[t].state = "none"
               /\ reply[t] \in {"", "not_supported"}
        /\ (cmd[t].kind = "dump" /\ ~NamesUnsupported(cmd[t])) => reply[t] # "not_supported"

\* what does hold of C26: no /dump command is ever answered not supported.
C26_NeverRejected ==
    \A t \in Tasks : reply[t] # "not_supported"

\* C26 witness: a /dump command naming system, which the list lacks, went
\* through dump_partition, which launched the units of the three other names,
\* and its handler ended without a not supported reply.
C26_Witness ==
    \E t \in Tasks :
        /\ cmd[t] = DumpCmd("good", <<"vendor_boot", ",", "system", ",", "init_boot", ",", "boot">>)
        /\ "system" \notin Range(SupportedPartitions)
        /\ listed[t] = <<"ok">> /\ Len(units[t]) = 3
        /\ pc[t] = "done" /\ reply[t] # "not_supported"

\* dump_partition is waiting for the listing or for an extraction unit
Dumping(t) == pc[t] \in {"listing", "await"}

\* C27: when the listing thread and every extraction thread end, with or
\* without sending, a dump that is waiting returns; and a dump returns by no
\* other way: while the thread whose receiver it awaits, the earliest one in
\* spawn order not yet collected, is running, it stays where it is and
\* returns nothing, whatever the other threads do and however much time passes.
C27_DumpReturnsWhenWorkersEnd ==
    /\ \A t \in Tasks : Dumping(t) ~> Returned(t)
    /\ [][\A t \in Tasks :
             /\ (pc[t] = "await" /\ Running(units[t][rxi[t]].state)) =>
                    (pc'[t] = "await" /\ rxi'[t] = rxi[t] /\ ret'[t] = NoRet)
             /\ (pc[t] = "listing" /\ listed'[t] = listed[t]) =>
                    (pc'[t] = "listing" /\ ret'[t] = NoRet)]_vars

\* C27 witness: a dump has returned Ok although another unit ended before the
\* first one spawned, and the clock had moved since the dump started.
C27_Witness ==
    \E t \in Tasks :
        /\ ret[t].state = "ok" /\ Len(units[t]) >= 2
        /\ finished[t][1] # 1
        /\ now > temp_dir[t]

====
